---- MODULE Spec2Model ----
(***************************************************************************)
(* The download engine of src-tauri/src/download_manager.rs: the           *)
(* DownloadManager registry and its commands, the coordination loop of     *)
(* every DownloadTask (process), its pipeline (download_comic), and the    *)
(* loop and download step of every DownloadImgTask.                        *)
(*                                                                         *)
(* Commands run on their own threads and tasks on a multi-threaded         *)
(* runtime, so the steps of different threads interleave.  One action is   *)
(* one stretch of code of one thread between two operations on shared      *)
(* objects whose order against other threads matters (the state channel,   *)
(* the semaphores, the registry, the download directory).                  *)
(*                                                                         *)
(* The state channel is tokio's watch channel.  Sender::send stores the    *)
(* value and marks every live Receiver changed; with no live Receiver it   *)
(* returns Err and leaves the stored value as it was (set_state logs that  *)
(* Err, lines 440-444).  DownloadTask::new drops the channel's first       *)
(* Receiver (line 166); Receivers exist from subscribe() in process()      *)
(* until that loop's locals are dropped.                                   *)
(*                                                                         *)
(* The configured DownloadFormat is a concrete one and does not change, so *)
(* every image file in a temp directory carries the configured extension.  *)
(*                                                                         *)
(* A download_task event is constructed (the loads of lines 449-452) and   *)
(* then delivered (.emit): for an image task these are two steps, for the  *)
(* loop and the pipeline they are taken as one with the step that calls    *)
(* emit_download_task_event.                                               *)
(***************************************************************************)
EXTENDS Integers, FiniteSets, Sequences, TLC

\* Bounds of the model.  Spec follows MaxCmds commands on NumComics comics
\* that share ComicConcurrency comic permits; SpecRetry follows RetryCmds
\* commands on one comic under RetryConcurrency comic permits, so that several
\* tasks of that comic can run at once.  SpecLong and SpecSpeed follow MaxCmds
\* commands on a comic of LongImgs images, SpecSpeed with the ticks of the
\* speed loop; SpecResume follows ResumeCmds commands, the last one a resume,
\* with no failure of a fetch or of the file system; SpecFormat follows
\* FormatCmds commands, submit, cancel and save_config, on the comic of
\* LongImgs images; SpecPlan hands download_comic the image lists of up to
\* MaxList entries.
NumComics == 2
NumImgs == 1
LongImgs == 2
ComicConcurrency == 1
ImgConcurrency == 1
MaxCmds == 3
RetryCmds == 4
RetryConcurrency == 2
ResumeCmds == 5
FormatCmds == 3
\* The longest img_list handed to download_comic.
MaxList == 3
\* The size of every image, in bytes.
ImgBytes == 500000
\* The seconds that the model follows.
MaxSeconds == 1
MaxText == 2
PAGE_SIZE == 24
Radix == 10

Comics == 1..NumComics
\* One more comic, with LongImgs images.
LongComic == NumComics + 1
Library == Comics \cup {LongComic}
\* Every task object is constructed by a command.
MaxTasks == RetryCmds
Tasks == 1..MaxTasks
Imgs == 1..LongImgs

VARIABLES
    download_tasks,        \* comic id -> DownloadTask in the registry (0: no entry)
    created,               \* number of DownloadTask objects constructed so far
    comic,                 \* task -> id of its comic snapshot (0: not constructed)
    state,                 \* task -> value held by state_sender
    downloaded_img_count,  \* task -> AtomicU32
    total_img_count,       \* task -> AtomicU32
    comic_sem,             \* available permits of comic_sem
    comic_waiters,         \* comic_sem's wait list: the tasks whose acquire() waits
    img_sem,               \* available permits of img_sem
    loop,                  \* task -> locals of DownloadTask::process
    pipeline,              \* task -> position of the download_comic future
    img,                   \* task -> image -> locals of DownloadImgTask::process
    temp_dir,              \* comic -> <download_dir>/.下载中-<title>
    final_dir,             \* comic -> <download_dir>/<title>
    resuming,              \* comic -> resume calls between their read and their create
    last_cmd,              \* the command that made the latest step, if a command made it
    cmds_left,             \* number of command calls the model still follows
    completed,             \* tasks whose state_sender has held Completed
    announced,             \* task -> a download_task event has carried the state it holds
    arrived,               \* the tasks waiting for a comic permit, in the order they began to wait
    byte_per_sec,          \* AtomicU64 of the manager
    bytes_added,           \* sum of the fetch_adds to byte_per_sec so far
    swapped,               \* sum of the values the ticks swapped out of byte_per_sec
    emitted,               \* sum of the sizes that the emitted speed texts state
    now,                   \* whole seconds since the manager was constructed
    deadline,              \* the second at which the interval's next tick is due
    ticked,                \* a download_speed event was emitted during this second
    snapshot,              \* a Comic handed to save_metadata
    manifest,              \* the JSON object of a metadata file
    read_back,             \* the Comic that from_metadata returned
    manifest_pc,           \* new, saved (the file is written), read
    html,                  \* a result page: what the selectors of from_html find in it
    page_result,           \* what from_html returned for html
    page_pc,               \* none, html (a page body has arrived), parsed
    download_format,       \* Config.download_format
    undeletable,           \* the files of the temp directories that remove_file fails on
    img_list,              \* the img_list of a Comic handed to download_comic
    plan,                  \* what download_comic makes of img_list
    plan_pc                \* none, new (download_comic begins), stored, spawned

vars == <<download_tasks, created, comic, state, downloaded_img_count,
          total_img_count, comic_sem, comic_waiters, img_sem, loop, pipeline, img,
          temp_dir, final_dir, resuming, last_cmd, cmds_left, completed,
          announced, arrived, byte_per_sec, bytes_added, swapped, emitted,
          now, deadline, ticked, snapshot, manifest, read_back, manifest_pc,
          html, page_result, page_pc, download_format, undeletable,
          img_list, plan, plan_pc>>

taskVars == <<download_tasks, created, comic, state, downloaded_img_count,
              total_img_count, comic_sem, comic_waiters, img_sem, loop, pipeline, img>>

dirVars == <<temp_dir, final_dir>>

timeVars == <<now, deadline, ticked>>

manifestVars == <<snapshot, manifest, read_back, manifest_pc>>

pageVars == <<html, page_result, page_pc>>

configVars == <<download_format, undeletable>>

planVars == <<img_list, plan, plan_pc>>

speedVars == <<byte_per_sec, bytes_added, swapped, emitted, timeVars>>

DownloadTaskState ==
    {"Pending", "Downloading", "Paused", "Cancelled", "Completed", "Failed"}

\* What a download_task event carries of the task (events.rs).
DownloadTaskEvent(s, n) == [state |-> s, downloaded_img_count |-> n]
NoEvent == DownloadTaskEvent("None", 0)

NoLoop == [pc |-> "none", dl |-> FALSE, pend |-> FALSE, permit |-> FALSE,
           changed |-> FALSE, queued |-> FALSE, granted |-> FALSE]
NoImg == [pc |-> "none", dl |-> FALSE, permit |-> FALSE, changed |-> FALSE,
          dpc |-> "none", ev |-> NoEvent]
\* A directory: files are its image files, each <<number, extension>> for
\* NNNN.extension, meta its 元数据.json.
NoDir == [exists |-> FALSE, files |-> {}, meta |-> FALSE]
\* Option: None is the empty set, Some(x) is {x}.
None == {}
Some(x) == {x}

\* enum DownloadFormat, as the match of get_img_data_and_format lists it.
Formats == {"Jpeg", "Png", "Webp", "Original"}

\* The ImageFormat values that get_img_data_and_format returns.
ImageFormats == {"Jpeg", "Png", "WebP"}

\* DownloadFormat::extension: the extension of a concrete format, None for
\* Original.
Extension(format) ==
    CASE format = "Jpeg" -> Some("jpg")
      [] format = "Png" -> Some("png")
      [] format = "Webp" -> Some("webp")
      [] OTHER -> None

\* The target format of get_img_data_and_format: the configured one, or the
\* format of the image as served.
TargetFormat(format, original_format) ==
    CASE format = "Jpeg" -> "Jpeg"
      [] format = "Png" -> "Png"
      [] format = "Webp" -> "WebP"
      [] OTHER -> original_format

\* The extension download_img gives the file of an image format.
ExtensionOf(img_format) ==
    CASE img_format = "Jpeg" -> "jpg"
      [] img_format = "Png" -> "png"
      [] OTHER -> "webp"

\* format!("{:04}.{extension}", index + 1), number being index + 1.
ImgFile(number, extension) == <<number, extension>>

\* Path::extension of a file of the temp directory.
PathExtension(file) == Some(file[2])

\* The metadata file 元数据.json as a directory entry.
MetaFile == <<0, "json">>

\* The numbers of the image files of a directory.
Numbers(d) == {file[1] : file \in d.files}

\* What download_comic makes of an img_list: the urls it collects, the total
\* it stores, the image tasks it spawns.
NoPlan == [img_urls |-> <<>>, total_img_count |-> 0, join_set |-> <<>>]

\* No result page.
NoHtml == [kind |-> "none", thispage |-> None, last |-> None]

\* anyhow::Result of from_html, of which the page numbers are kept.
Err == [ok |-> FALSE, current_page |-> 0, total_page |-> 0]

\* struct Comic (comic.rs, lines 14-37).
NoComic ==
    [id |-> 0, title |-> <<>>, cover |-> "", category |-> "", image_count |-> 0,
     tags |-> <<>>, intro |-> "", is_downloaded |-> None, img_list |-> <<>>]

\* A metadata file that was not written.
NoJson == [id |-> 0]

NoCmd == [op |-> "none", comic |-> 0, res |-> "none"]

Cmd(op, c, res) == [op |-> op, comic |-> c, res |-> res]

\* The download plan of a comic: img_list without the sentinel.
PlanSize(c) == IF c = LongComic THEN LongImgs ELSE NumImgs

Plan(t) == 1..total_img_count[t]

IsActive(s) == s \in {"Pending", "Downloading", "Paused"}

IsTerminal(s) == s \in {"Failed", "Cancelled", "Completed"}

Init ==
    /\ download_tasks = [c \in Library |-> 0]
    /\ created = 0
    /\ comic = [t \in Tasks |-> 0]
    /\ state = [t \in Tasks |-> "None"]
    /\ downloaded_img_count = [t \in Tasks |-> 0]
    /\ total_img_count = [t \in Tasks |-> 0]
    /\ comic_sem = ComicConcurrency
    /\ comic_waiters = <<>>
    /\ img_sem = ImgConcurrency
    /\ loop = [t \in Tasks |-> NoLoop]
    /\ pipeline = [t \in Tasks |-> "none"]
    /\ img = [t \in Tasks |-> [i \in Imgs |-> NoImg]]
    /\ temp_dir = [c \in Library |-> NoDir]
    /\ final_dir = [c \in Library |-> NoDir]
    /\ resuming = [c \in Library |-> 0]
    /\ last_cmd = NoCmd
    /\ cmds_left = MaxCmds
    /\ completed = {}
    /\ announced = [t \in Tasks |-> TRUE]
    /\ arrived = <<>>
    /\ byte_per_sec = 0
    /\ bytes_added = 0
    /\ swapped = 0
    /\ emitted = 0
    /\ now = 0
    /\ deadline = 0
    /\ ticked = FALSE
    /\ snapshot = NoComic
    /\ manifest = NoJson
    /\ read_back = NoComic
    /\ manifest_pc = "new"
    /\ html = NoHtml
    /\ page_result = Err
    /\ page_pc = "none"
    /\ download_format = "Jpeg"
    /\ undeletable = {}
    /\ img_list = <<>>
    /\ plan = NoPlan
    /\ plan_pc = "none"

(***************************************************************************)
(* The state channel.                                                      *)
(***************************************************************************)
LoopSubscribed(l) == l.pc \in {"top", "sel", "send", "break"}

ImgSubscribed(m) == m.pc \in {"top", "sel", "emit"}

ReceiverCount(t) ==
    (IF LoopSubscribed(loop[t]) THEN 1 ELSE 0)
        + Cardinality({i \in Imgs : ImgSubscribed(img[t][i])})

\* watch::Sender::send: Ok iff a Receiver is alive.
SendOk(t) == ReceiverCount(t) > 0

StateSent(t, s) == IF SendOk(t) THEN [state EXCEPT ![t] = s] ELSE state

LoopNotified(l) == IF LoopSubscribed(l) THEN [l EXCEPT !.changed = TRUE] ELSE l

ImgNotified(m) == IF ImgSubscribed(m) THEN [m EXCEPT !.changed = TRUE] ELSE m

ImgsNotified(ms) == [i \in Imgs |-> ImgNotified(ms[i])]

\* The acquire() future of a task is dropped: it leaves the wait list.
Unqueued(q, t) == SelectSeq(q, LAMBDA x : x # t)

\* The state that a change has put into the channel has not been carried by
\* an event yet.
Unannounced(t, s) ==
    [announced EXCEPT ![t] = IF SendOk(t) /\ s # state[t] THEN FALSE ELSE @]

\* emit_download_task_event (lines 447-455) by the task's loop or pipeline:
\* the event carries the state that the channel holds.
Announced(t) == [announced EXCEPT ![t] = TRUE]

\* set_state called by a thread other than the task's own.
SetState(t, s) ==
    /\ state' = StateSent(t, s)
    /\ announced' = Unannounced(t, s)
    /\ arrived' = IF s \in {"Paused", "Cancelled"}
                    THEN Unqueued(arrived, t) ELSE arrived
    /\ loop' = [loop EXCEPT ![t] = IF SendOk(t) THEN LoopNotified(@) ELSE @]
    /\ img' = [img EXCEPT ![t] = IF SendOk(t) THEN ImgsNotified(@) ELSE @]
    /\ completed' = IF SendOk(t) /\ s = "Completed" THEN completed \cup {t} ELSE completed

(***************************************************************************)
(* DownloadManager: the commands.                                          *)
(***************************************************************************)
\* A command is called.
Called(cmd) ==
    /\ cmds_left > 0
    /\ cmds_left' = cmds_left - 1
    /\ last_cmd' = cmd

\* A command returns that was called earlier.
Returned(cmd) ==
    /\ cmds_left' = cmds_left
    /\ last_cmd' = cmd

\* A step of a task, not of a command.
Internal ==
    /\ cmds_left' = cmds_left
    /\ last_cmd' = NoCmd

\* A variant of Inserted that removes the entry of the comic.
Removed(c, t) == [download_tasks EXCEPT ![c] = 0]

\* tasks.insert(comic_id, task) at line 93: the entry is added or overwritten.
Inserted(c, t) == [download_tasks EXCEPT ![c] = t]

\* DownloadTask::new, spawn(process) and the insert into the registry.
NewTask(c) ==
    /\ created < MaxTasks
    /\ LET t == created + 1 IN
        /\ created' = t
        /\ comic' = [comic EXCEPT ![t] = c]
        /\ state' = [state EXCEPT ![t] = "Pending"]
        /\ downloaded_img_count' = [downloaded_img_count EXCEPT ![t] = 0]
        /\ total_img_count' = [total_img_count EXCEPT ![t] = 0]
        /\ loop' = [loop EXCEPT ![t] = [NoLoop EXCEPT !.pc = "spawned"]]
        /\ pipeline' = [pipeline EXCEPT ![t] = "start"]
        /\ download_tasks' = Inserted(c, t)
        /\ announced' = [announced EXCEPT ![t] = TRUE]
        /\ arrived' = arrived
    /\ UNCHANGED <<comic_sem, comic_waiters, img_sem, img>>

\* A variant of KeepsTask that forgets Paused among the states that keep the task.
KeepsUnlessPaused(c) ==
    download_tasks[c] # 0 /\ state[download_tasks[c]] \in {"Pending", "Downloading"}

\* create_download_task returns early: the entry exists and is not terminal.
KeepsTask(c) == download_tasks[c] # 0 /\ IsActive(state[download_tasks[c]])

\* A variant of CreateDownloadTask that does not look at the entry.
CreateUnchecked(c) == NewTask(c)

\* create_download_task, under the registry's write lock.
CreateDownloadTask(c) ==
    IF KeepsTask(c) THEN UNCHANGED <<taskVars, announced, arrived>> ELSE NewTask(c)

CreateResult(c) == IF KeepsTask(c) THEN "kept" ELSE "created"

Submit(c) ==
    /\ CreateDownloadTask(c)
    /\ Called(Cmd("submit", c, CreateResult(c)))
    /\ UNCHANGED <<dirVars, resuming, completed>>
    /\ UNCHANGED <<speedVars, manifestVars, pageVars, configVars, planVars>>

\* A variant of NotFound: the command returns Ok for an id it does not know.
NotFoundIgnored == "ok"

\* What pause, resume and cancel return for an id without a registry entry
\* (lines 98-100, 109-111, 131-133).
NotFound == "err"

\* What pause_download_task sends.
PauseTarget(c) == "Paused"

Pause(c) ==
    /\ IF download_tasks[c] = 0
         THEN /\ UNCHANGED <<state, loop, img, completed, announced, arrived>>
              /\ Called(Cmd("pause", c, NotFound))
         ELSE /\ SetState(download_tasks[c], PauseTarget(c))
              /\ Called(Cmd("pause", c, "ok"))
    /\ UNCHANGED <<download_tasks, created, comic, downloaded_img_count,
                   total_img_count, comic_sem, comic_waiters, img_sem, pipeline, dirVars, resuming>>
    /\ UNCHANGED <<speedVars, manifestVars, pageVars, configVars, planVars>>

Cancel(c) ==
    /\ IF download_tasks[c] = 0
         THEN /\ UNCHANGED <<state, loop, img, completed, announced, arrived>>
              /\ Called(Cmd("cancel", c, NotFound))
         ELSE /\ SetState(download_tasks[c], "Cancelled")
              /\ Called(Cmd("cancel", c, "ok"))
    /\ UNCHANGED <<download_tasks, created, comic, downloaded_img_count,
                   total_img_count, comic_sem, comic_waiters, img_sem, pipeline, dirVars, resuming>>
    /\ UNCHANGED <<speedVars, manifestVars, pageVars, configVars, planVars>>

\* resume_download_task reads a terminal state: it will re-create the task.
ResumeRecreates(c) == IsTerminal(state[download_tasks[c]])

\* resume_download_task, the block under the registry's read lock (lines 107-121).
ResumeRead(c) ==
    /\ IF download_tasks[c] = 0
         THEN /\ UNCHANGED <<state, loop, img, completed, announced, arrived, resuming>>
              /\ Called(Cmd("resume", c, NotFound))
         ELSE IF ResumeRecreates(c)
         THEN /\ resuming' = [resuming EXCEPT ![c] = @ + 1]
              /\ UNCHANGED <<state, loop, img, completed, announced, arrived>>
              /\ Called(NoCmd)
         ELSE /\ SetState(download_tasks[c], "Pending")
              /\ UNCHANGED resuming
              /\ Called(Cmd("resume", c, "pending"))
    /\ UNCHANGED <<download_tasks, created, comic, downloaded_img_count,
                   total_img_count, comic_sem, comic_waiters, img_sem, pipeline, dirVars>>
    /\ UNCHANGED <<speedVars, manifestVars, pageVars, configVars, planVars>>

\* resume_download_task, the create_download_task call after the read lock is
\* released (lines 123-126).
ResumeCreate(c) ==
    /\ resuming[c] > 0
    /\ resuming' = [resuming EXCEPT ![c] = @ - 1]
    /\ CreateDownloadTask(c)
    /\ Returned(Cmd("resume", c, CreateResult(c)))
    /\ UNCHANGED <<dirVars, completed>>
    /\ UNCHANGED <<speedVars, manifestVars, pageVars, configVars, planVars>>

(***************************************************************************)
(* DownloadTask::process: the coordination loop of one comic task.         *)
(*   pc: spawned (not polled yet), top (the reads of the state at lines    *)
(*   185-186), sel (in select!), send (acquire_comic_permit before its     *)
(*   send), break (the loop is left, its locals not dropped yet), exited.  *)
(***************************************************************************)
\* The task's own thread sends s: its own Receiver is alive.
OwnSend(t, s, pc) ==
    /\ state' = StateSent(t, s)
    /\ loop' = [loop EXCEPT ![t] = [LoopNotified(@) EXCEPT !.pc = pc]]
    /\ img' = [img EXCEPT ![t] = ImgsNotified(@)]
    /\ completed' = IF SendOk(t) /\ s = "Completed" THEN completed \cup {t} ELSE completed

\* First poll: subscribe() and mark_changed() (lines 181-183).
ProcessStart(t) ==
    /\ loop[t].pc = "spawned"
    /\ loop' = [loop EXCEPT ![t] = [@ EXCEPT !.pc = "top", !.changed = TRUE]]
    /\ Internal
    /\ UNCHANGED <<download_tasks, created, comic, state, downloaded_img_count,
                   total_img_count, comic_sem, comic_waiters, img_sem, pipeline, img,
                   dirVars, resuming, completed>>
    /\ UNCHANGED <<announced, arrived, speedVars, manifestVars, pageVars, configVars, planVars>>

\* Lines 185-186: the two reads of the state, taken as one.  (Reads that
\* straddle a resume give dl and pend both TRUE, which enables nothing that
\* a read before the resume and the next iteration's read do not enable.)
ProcessReadState(t) ==
    /\ loop[t].pc = "top"
    /\ loop' = [loop EXCEPT ![t] = [@ EXCEPT !.pc = "sel",
                                             !.dl = (state[t] = "Downloading"),
                                             !.pend = (state[t] = "Pending")]]
    /\ Internal
    /\ UNCHANGED <<download_tasks, created, comic, state, downloaded_img_count,
                   total_img_count, comic_sem, comic_waiters, img_sem, pipeline, img,
                   dirVars, resuming, completed>>
    /\ UNCHANGED <<announced, arrived, speedVars, manifestVars, pageVars, configVars, planVars>>

\* The precondition of the pipeline branch of select! (line 188).
PipelineBranch(l) == l.pc = "sel" /\ l.dl /\ l.permit

\* The precondition of the acquire branch of select! (line 189).
AcquireBranch(l) == l.pc = "sel" /\ l.pend

\* No permit is dropped, the loops being lp and the wait list q.
KeepComicPermits(lp, q) ==
    /\ loop' = lp
    /\ comic_waiters' = q
    /\ comic_sem' = comic_sem

\* A dropped permit goes nowhere.
PermitLost(lp, q) ==
    /\ loop' = lp
    /\ comic_waiters' = q
    /\ comic_sem' = comic_sem

\* A permit of comic_sem is dropped, the loops being lp and the wait list q: the
\* semaphore assigns it to the first waiter (whose acquire() is then ready),
\* and only with no waiter adds it to the available permits.
ReleaseComicPermit(lp, q) ==
    /\ loop' = IF q = <<>>
                 THEN lp
                 ELSE [lp EXCEPT ![Head(q)] = [@ EXCEPT !.queued = FALSE,
                                                        !.granted = TRUE]]
    /\ comic_waiters' = IF q = <<>> THEN q ELSE Tail(q)
    /\ comic_sem' = IF q = <<>> THEN comic_sem + 1 ELSE comic_sem

\* acquire_comic_permit is polled and finds no permit (lines 359-378): it has
\* emitted its event (line 368) and waits for comic_sem.
AcquireComicPermitQueues(t) ==
    /\ AcquireBranch(loop[t])
    /\ ~loop[t].queued /\ ~loop[t].granted
    /\ ~loop[t].permit /\ comic_sem = 0
    /\ loop' = [loop EXCEPT ![t] = [@ EXCEPT !.queued = TRUE]]
    /\ comic_waiters' = Append(comic_waiters, t)
    /\ announced' = Announced(t)
    /\ arrived' = IF \E k \in DOMAIN arrived : arrived[k] = t
                    THEN arrived ELSE Append(arrived, t)
    /\ Internal
    /\ UNCHANGED <<download_tasks, created, comic, state, downloaded_img_count,
                   total_img_count, comic_sem, img_sem, pipeline, img,
                   dirVars, resuming, completed, speedVars, manifestVars, pageVars, configVars, planVars>>

\* acquire_comic_permit up to its read of the state (lines 359-397): the event
\* of line 368 is emitted by its first poll; the held permit is used, or one
\* is acquired; a state other than Pending: Continue.
AcquireComicPermit(t) ==
    /\ AcquireBranch(loop[t])
    /\ loop[t].permit \/ loop[t].granted \/ (~loop[t].queued /\ comic_sem > 0)
    /\ comic_sem' = IF loop[t].permit \/ loop[t].granted
                      THEN comic_sem ELSE comic_sem - 1
    /\ loop' = [loop EXCEPT ![t] =
                  [@ EXCEPT !.permit = TRUE,
                            !.queued = FALSE,
                            !.granted = FALSE,
                            !.pc = IF state[t] = "Pending" THEN "send" ELSE "top"]]
    /\ Internal
    /\ UNCHANGED <<download_tasks, created, comic, state, downloaded_img_count,
                   total_img_count, comic_waiters, img_sem, pipeline, img,
                   dirVars, resuming, completed>>
    /\ announced' = IF loop[t].queued \/ loop[t].granted
                      THEN announced ELSE Announced(t)
    /\ arrived' = arrived
    /\ UNCHANGED <<speedVars, manifestVars, pageVars, configVars, planVars>>

\* acquire_comic_permit: send(Downloading) (lines 399-409).
SendDownloading(t) ==
    /\ loop[t].pc = "send"
    /\ OwnSend(t, "Downloading", "top")
    /\ Internal
    /\ UNCHANGED <<download_tasks, created, comic, downloaded_img_count,
                   total_img_count, comic_sem, comic_waiters, img_sem, pipeline,
                   dirVars, resuming>>
    /\ announced' = Unannounced(t, "Downloading")
    /\ arrived' = Unqueued(arrived, t)
    /\ UNCHANGED <<speedVars, manifestVars, pageVars, configVars, planVars>>

\* handle_state_change leaves the permit where it is, whatever the state.
PermitKept(t) == loop[t].permit

\* Whether the loop holds a permit after handle_state_change: Paused takes
\* the permit out of the local and drops it (lines 423-428).
PermitAfterChange(t) == IF state[t] = "Paused" THEN FALSE ELSE loop[t].permit

\* The changed() branch and handle_state_change (lines 195-200, 412-436).
HandleStateChange(t) ==
    /\ loop[t].pc = "sel"
    /\ loop[t].changed
    /\ LET lp == [loop EXCEPT ![t] =
                    [@ EXCEPT !.changed = FALSE,
                              !.queued = FALSE,
                              !.granted = FALSE,
                              !.permit = PermitAfterChange(t),
                              !.pc = IF state[t] = "Cancelled" THEN "break" ELSE "top"]]
           q == Unqueued(comic_waiters, t)
       IN  IF (loop[t].permit /\ ~PermitAfterChange(t)) \/ loop[t].granted
             THEN ReleaseComicPermit(lp, q)
             ELSE KeepComicPermits(lp, q)
    /\ Internal
    /\ UNCHANGED <<download_tasks, created, comic, state, downloaded_img_count,
                   total_img_count, img_sem, pipeline, img,
                   dirVars, resuming, completed>>
    /\ announced' = Announced(t)
    /\ arrived' = arrived
    /\ UNCHANGED <<speedVars, manifestVars, pageVars, configVars, planVars>>

\* process returns: permit, state_receiver and the pipeline future are
\* dropped; dropping the JoinSet aborts the image tasks still in it.
ProcessExit(t) ==
    /\ loop[t].pc = "break"
    /\ LET lp == [loop EXCEPT ![t] = [NoLoop EXCEPT !.pc = "exited"]]
       IN  IF loop[t].permit
             THEN ReleaseComicPermit(lp, comic_waiters)
             ELSE KeepComicPermits(lp, comic_waiters)
    /\ pipeline' = [pipeline EXCEPT ![t] = IF @ = "done" THEN "done" ELSE "dropped"]
    /\ Internal
    /\ UNCHANGED <<download_tasks, created, comic, state, downloaded_img_count,
                   total_img_count, img_sem, img, dirVars, resuming, completed>>
    /\ UNCHANGED <<announced, arrived, speedVars, manifestVars, pageVars, configVars, planVars>>

(***************************************************************************)
(* DownloadTask::download_comic: the pipeline, polled by the pipeline      *)
(* branch of select!.  Its only await is join_all (line 246): the code     *)
(* before it is one step, the code after it another.                       *)
(***************************************************************************)
\* Lines 219-220.
StoreTotal(t) ==
    total_img_count' = [total_img_count EXCEPT ![t] = PlanSize(comic[t])]

\* create_temp_download_dir fails (lines 296-306): Failed, and the pipeline returns.
DownloadComicCreateDirFails(t) ==
    /\ PipelineBranch(loop[t])
    /\ pipeline[t] = "start"
    /\ StoreTotal(t)
    /\ OwnSend(t, "Failed", "break")
    /\ pipeline' = [pipeline EXCEPT ![t] = "done"]
    /\ Internal
    /\ UNCHANGED <<download_tasks, created, comic, downloaded_img_count,
                   comic_sem, comic_waiters, img_sem, dirVars, resuming>>
    /\ announced' = Announced(t)
    /\ arrived' = arrived
    /\ UNCHANGED <<speedVars, manifestVars, pageVars, configVars, planVars>>

\* A variant of ShouldKeep that keeps every file when the format has no
\* extension.
KeepUnlessConstrained(path_extension, extension) ==
    \/ extension = None
    \/ \E ext \in path_extension : Some(ext) = extension

\* should_keep of clean_temp_download_dir: the path has an extension, and it is
\* the one of the configured format.
ShouldKeep(path_extension, extension) ==
    \E ext \in path_extension : Some(ext) = extension

\* A directory entry is there after clean_temp_download_dir: it is kept, or
\* remove_file failed on it.
Survives(file) ==
    \/ ShouldKeep(PathExtension(file), Extension(download_format))
    \/ file \in undeletable

\* create_dir_all: the directory exists afterwards, with the files it had.
\* clean_temp_download_dir then removes the entries it does not keep.
TempDirCreated(d) ==
    [exists |-> TRUE,
     files |-> {file \in d.files : Survives(file)},
     meta |-> d.meta /\ Survives(MetaFile)]

\* save_metadata (lines 458-475) has written 元数据.json.
MetadataSaved(d) == [d EXCEPT !.meta = TRUE]

\* save_metadata fails (lines 231-236): the pipeline returns, no state is set.
DownloadComicSaveMetadataFails(t) ==
    /\ PipelineBranch(loop[t])
    /\ pipeline[t] = "start"
    /\ StoreTotal(t)
    /\ temp_dir' = [temp_dir EXCEPT ![comic[t]] = TempDirCreated(@)]
    /\ pipeline' = [pipeline EXCEPT ![t] = "done"]
    /\ loop' = [loop EXCEPT ![t] = [@ EXCEPT !.pc = "break"]]
    /\ Internal
    /\ UNCHANGED <<download_tasks, created, comic, state, downloaded_img_count,
                   comic_sem, comic_waiters, img_sem, img, final_dir, resuming, completed>>
    /\ UNCHANGED <<announced, arrived, speedVars, manifestVars, pageVars, configVars, planVars>>

\* DownloadImgTask::new and join_set.spawn (lines 238-244).
SpawnedImg(t, i) ==
    IF i <= PlanSize(comic[t])
      THEN [NoImg EXCEPT !.pc = "spawned", !.dpc = "start"]
      ELSE NoImg

\* Lines 207-246: the total is stored, the temp directory prepared, the
\* manifest written, one image task spawned per planned image.
DownloadComicSpawns(t) ==
    /\ PipelineBranch(loop[t])
    /\ pipeline[t] = "start"
    /\ StoreTotal(t)
    /\ temp_dir' = [temp_dir EXCEPT ![comic[t]] = MetadataSaved(TempDirCreated(@))]
    /\ img' = [img EXCEPT ![t] = [i \in Imgs |-> SpawnedImg(t, i)]]
    /\ pipeline' = [pipeline EXCEPT ![t] = "join"]
    /\ Internal
    /\ UNCHANGED <<download_tasks, created, comic, state, downloaded_img_count,
                   comic_sem, comic_waiters, img_sem, loop, final_dir, resuming, completed>>
    /\ UNCHANGED <<announced, arrived, speedVars, manifestVars, pageVars, configVars, planVars>>

\* join_all that returns with the first image task that finishes.
FirstJoined(t) == \E i \in Plan(t) : img[t][i].pc = "exited"

\* join_all is ready: every image task of the JoinSet has finished.
Joined(t) == \A i \in Plan(t) : img[t][i].pc = "exited"

\* Variants of the completeness check: none at all, and one that only bounds
\* the counter.
NoCompletenessCheck(t) == TRUE

NotMoreThanTotal(t) == downloaded_img_count[t] <= total_img_count[t]

\* The completeness check of line 252.
AllImgsDownloaded(t) == downloaded_img_count[t] = total_img_count[t]

\* Lines 252-262.
DownloadComicIncomplete(t) ==
    /\ PipelineBranch(loop[t])
    /\ pipeline[t] = "join"
    /\ Joined(t)
    /\ ~AllImgsDownloaded(t)
    /\ OwnSend(t, "Failed", "break")
    /\ pipeline' = [pipeline EXCEPT ![t] = "done"]
    /\ Internal
    /\ UNCHANGED <<download_tasks, created, comic, downloaded_img_count,
                   total_img_count, comic_sem, comic_waiters, img_sem, dirVars, resuming>>
    /\ announced' = Announced(t)
    /\ arrived' = arrived
    /\ UNCHANGED <<speedVars, manifestVars, pageVars, configVars, planVars>>

\* rename_temp_download_dir fails (lines 264-273): remove_dir_all of an existing
\* final directory fails and leaves it, or it is removed and rename fails
\* (as it does when the temp directory is no longer there).
DownloadComicRenameFails(t) ==
    /\ PipelineBranch(loop[t])
    /\ pipeline[t] = "join"
    /\ Joined(t)
    /\ AllImgsDownloaded(t)
    /\ \E removed \in BOOLEAN :
        /\ removed \/ final_dir[comic[t]].exists
        /\ final_dir' = [final_dir EXCEPT ![comic[t]] = IF removed THEN NoDir ELSE @]
    /\ OwnSend(t, "Failed", "break")
    /\ pipeline' = [pipeline EXCEPT ![t] = "done"]
    /\ Internal
    /\ UNCHANGED <<download_tasks, created, comic, downloaded_img_count,
                   total_img_count, comic_sem, comic_waiters, img_sem, temp_dir, resuming>>
    /\ announced' = Announced(t)
    /\ arrived' = arrived
    /\ UNCHANGED <<speedVars, manifestVars, pageVars, configVars, planVars>>

\* Lines 264-282: the temp directory becomes the final directory, replacing an
\* existing one, and the state is set to Completed.
DownloadComicCompletes(t) ==
    /\ PipelineBranch(loop[t])
    /\ pipeline[t] = "join"
    /\ Joined(t)
    /\ AllImgsDownloaded(t)
    /\ temp_dir[comic[t]].exists
    /\ final_dir' = [final_dir EXCEPT ![comic[t]] = temp_dir[comic[t]]]
    /\ temp_dir' = [temp_dir EXCEPT ![comic[t]] = NoDir]
    /\ OwnSend(t, "Completed", "break")
    /\ pipeline' = [pipeline EXCEPT ![t] = "done"]
    /\ Internal
    /\ UNCHANGED <<download_tasks, created, comic, downloaded_img_count,
                   total_img_count, comic_sem, comic_waiters, img_sem, resuming>>
    /\ announced' = Announced(t)
    /\ arrived' = arrived
    /\ UNCHANGED <<speedVars, manifestVars, pageVars, configVars, planVars>>

(***************************************************************************)
(* DownloadImgTask::process and download_img: one image task.              *)
(*   pc: spawned, top (the read of line 533), sel (in select!), exited.    *)
(*   dpc, the download_img future: start, fetch (awaiting the response,    *)
(*   line 575), done (counted), failed (returned uncounted), dropped.      *)
(*   pc emit: the image is counted and its event constructed (the loads of *)
(*   lines 449-452), the event not delivered yet (.emit, line 454).        *)
(* An image task whose JoinSet was dropped is aborted: its future is       *)
(* dropped when the runtime next holds it, its running poll goes on.       *)
(***************************************************************************)
Freed(old, new) == IF old.permit /\ ~new.permit THEN 1 ELSE 0

ImgGone(dpc) == [NoImg EXCEPT !.pc = "exited", !.dpc = dpc]

\* One image task takes a step that only touches its locals and img_sem.
ImgStep(t, i, new) ==
    /\ img' = [img EXCEPT ![t][i] = new]
    /\ img_sem' = img_sem + Freed(img[t][i], new)

\* First poll: subscribe() and mark_changed() (lines 528-530).
ImgProcessStart(t, i) ==
    /\ img[t][i].pc = "spawned"
    /\ ImgStep(t, i, [img[t][i] EXCEPT !.pc = "top", !.changed = TRUE])
    /\ Internal
    /\ UNCHANGED <<download_tasks, created, comic, state, downloaded_img_count,
                   total_img_count, comic_sem, comic_waiters, loop, pipeline,
                   dirVars, resuming, completed>>
    /\ UNCHANGED <<announced, arrived, speedVars, manifestVars, pageVars, configVars, planVars>>

\* Line 533.
ImgReadDownloading(t, i) ==
    /\ img[t][i].pc = "top"
    /\ ImgStep(t, i, [img[t][i] EXCEPT !.pc = "sel", !.dl = (state[t] = "Downloading")])
    /\ Internal
    /\ UNCHANGED <<download_tasks, created, comic, state, downloaded_img_count,
                   total_img_count, comic_sem, comic_waiters, loop, pipeline,
                   dirVars, resuming, completed>>
    /\ UNCHANGED <<announced, arrived, speedVars, manifestVars, pageVars, configVars, planVars>>

\* A variant of DownloadBranch that polls download_img without a permit.
DownloadBranchNoPermit(m) == m.pc = "sel" /\ m.dl

\* A variant of DownloadBranch that polls download_img whatever state was read.
DownloadBranchAnyState(m) == m.pc = "sel" /\ m.permit

\* The precondition of the download branch of select! (line 535).
DownloadBranch(m) == m.pc = "sel" /\ m.dl /\ m.permit

\* The precondition of the acquire branch of select! (line 536).
ImgAcquireBranch(m) == m.pc = "sel" /\ m.dl /\ ~m.permit

\* acquire_img_permit (lines 623-654).
AcquireImgPermit(t, i) ==
    /\ ImgAcquireBranch(img[t][i])
    /\ img_sem > 0
    /\ img_sem' = img_sem - 1
    /\ img' = [img EXCEPT ![t][i] = [@ EXCEPT !.permit = TRUE, !.pc = "top"]]
    /\ Internal
    /\ UNCHANGED <<download_tasks, created, comic, state, downloaded_img_count,
                   total_img_count, comic_sem, comic_waiters, loop, pipeline,
                   dirVars, resuming, completed>>
    /\ UNCHANGED <<announced, arrived, speedVars, manifestVars, pageVars, configVars, planVars>>

\* The changed() branch and handle_state_change (lines 542-547, 656-680).
ImgHandleStateChange(t, i) ==
    /\ img[t][i].pc = "sel"
    /\ img[t][i].changed
    /\ ImgStep(t, i, IF state[t] = "Cancelled" THEN ImgGone("dropped")
                     ELSE [img[t][i] EXCEPT
                             !.changed = FALSE,
                             !.permit = IF state[t] = "Paused" THEN FALSE ELSE @,
                             !.pc = "top"])
    /\ Internal
    /\ UNCHANGED <<download_tasks, created, comic, state, downloaded_img_count,
                   total_img_count, comic_sem, comic_waiters, loop, pipeline,
                   dirVars, resuming, completed>>
    /\ UNCHANGED <<announced, arrived, speedVars, manifestVars, pageVars, configVars, planVars>>

\* A variant of ImgExists that never finds the file.
ImgNeverExists(t, i) == FALSE

\* A variant of ImgExists that takes a file of any extension for the image.
ImgExistsAnyExtension(t, i) == i \in Numbers(temp_dir[comic[t]])

\* Lines 559-565: the format has an extension and save_path.exists().
ImgExists(t, i) ==
    \E extension \in Extension(download_format) :
        ImgFile(i, extension) \in temp_dir[comic[t]].files

\* A variant of AfterSkip in which download_img starts again once the image
\* is counted.
AfterSkipAgain(m) == [m EXCEPT !.pc = "top"]

\* A variant of AfterSkip without the return of line 571: the fetch follows.
AfterSkipNoReturn(m) == [m EXCEPT !.dpc = "fetch"]

\* The image task after the skip path: download_img returns once its event is
\* emitted (lines 570-571).
AfterSkip(m) == [m EXCEPT !.pc = "emit", !.dpc = "done"]

\* The event that an image task constructs after its fetch_add.
ImgEvent(t) == DownloadTaskEvent(state[t], downloaded_img_count[t] + 1)

\* Lines 559-573: the file is there, it is counted and not fetched.
ImgSkip(t, i) ==
    /\ DownloadBranch(img[t][i])
    /\ img[t][i].dpc = "start"
    /\ ImgExists(t, i)
    /\ downloaded_img_count' = [downloaded_img_count EXCEPT ![t] = @ + 1]
    /\ ImgStep(t, i, [AfterSkip(img[t][i]) EXCEPT !.ev = ImgEvent(t)])
    /\ Internal
    /\ UNCHANGED <<download_tasks, created, comic, state,
                   total_img_count, comic_sem, comic_waiters, loop, pipeline,
                   dirVars, resuming, completed>>
    /\ UNCHANGED <<announced, arrived, speedVars, manifestVars, pageVars, configVars, planVars>>

\* Line 575: the request is sent and awaited.
ImgFetchStarts(t, i) ==
    /\ DownloadBranch(img[t][i])
    /\ img[t][i].dpc = "start"
    /\ ~ImgExists(t, i)
    /\ ImgStep(t, i, [img[t][i] EXCEPT !.dpc = "fetch"])
    /\ Internal
    /\ UNCHANGED <<download_tasks, created, comic, state, downloaded_img_count,
                   total_img_count, comic_sem, comic_waiters, loop, pipeline,
                   dirVars, resuming, completed>>
    /\ UNCHANGED <<announced, arrived, speedVars, manifestVars, pageVars, configVars, planVars>>

\* Lines 576-583: the fetch fails; nothing is counted.
ImgFetchFails(t, i) ==
    /\ DownloadBranch(img[t][i])
    /\ img[t][i].dpc = "fetch"
    /\ ImgStep(t, i, ImgGone("failed"))
    /\ Internal
    /\ UNCHANGED <<download_tasks, created, comic, state, downloaded_img_count,
                   total_img_count, comic_sem, comic_waiters, loop, pipeline,
                   dirVars, resuming, completed>>
    /\ UNCHANGED <<announced, arrived, speedVars, manifestVars, pageVars, configVars, planVars>>

\* Lines 604-609: std::fs::write fails, as it must when the temp directory is
\* gone and may at any time; nothing is counted.
ImgWriteFails(t, i) ==
    /\ DownloadBranch(img[t][i])
    /\ img[t][i].dpc = "fetch"
    /\ ImgStep(t, i, ImgGone("failed"))
    /\ Internal
    /\ UNCHANGED <<download_tasks, created, comic, state, downloaded_img_count,
                   total_img_count, comic_sem, comic_waiters, loop, pipeline,
                   dirVars, resuming, completed>>
    /\ UNCHANGED <<announced, arrived, speedVars, manifestVars, pageVars, configVars, planVars>>

\* Lines 585-621: the image is fetched, written and counted.
ImgSaved(t, i) ==
    /\ DownloadBranch(img[t][i])
    /\ img[t][i].dpc = "fetch"
    /\ temp_dir[comic[t]].exists
    /\ \E original_format \in ImageFormats :
        temp_dir' = [temp_dir EXCEPT ![comic[t]].files =
                        @ \cup {ImgFile(i, ExtensionOf(TargetFormat(download_format,
                                                                   original_format)))}]
    /\ byte_per_sec' = byte_per_sec + ImgBytes
    /\ bytes_added' = bytes_added + ImgBytes
    /\ downloaded_img_count' = [downloaded_img_count EXCEPT ![t] = @ + 1]
    /\ ImgStep(t, i, [img[t][i] EXCEPT !.pc = "emit", !.dpc = "done", !.ev = ImgEvent(t)])
    /\ Internal
    /\ UNCHANGED <<download_tasks, created, comic, state,
                   total_img_count, comic_sem, comic_waiters, loop, pipeline,
                   final_dir, resuming, completed, announced, arrived, swapped, emitted,
                   timeVars, manifestVars, pageVars, configVars, planVars>>

\* The event of an image task is delivered (.emit at line 454, called at lines
\* 570 and 620); download_img returns and process breaks.
ImgEmits(t, i) ==
    /\ img[t][i].pc = "emit"
    /\ announced' = IF img[t][i].ev.state = state[t] THEN Announced(t) ELSE announced
    /\ arrived' = arrived
    /\ ImgStep(t, i, ImgGone("done"))
    /\ Internal
    /\ UNCHANGED <<download_tasks, created, comic, state, downloaded_img_count,
                   total_img_count, comic_sem, comic_waiters, loop, pipeline,
                   dirVars, resuming, completed, speedVars, manifestVars, pageVars, configVars, planVars>>

\* The future of an aborted image task is dropped, with the permit it holds.
ImgAborted(t, i) ==
    /\ loop[t].pc = "exited"
    /\ img[t][i].pc \in {"spawned", "top", "sel"}
    /\ ImgStep(t, i, ImgGone("dropped"))
    /\ Internal
    /\ UNCHANGED <<download_tasks, created, comic, state, downloaded_img_count,
                   total_img_count, comic_sem, comic_waiters, loop, pipeline,
                   dirVars, resuming, completed>>
    /\ UNCHANGED <<announced, arrived, speedVars, manifestVars, pageVars, configVars, planVars>>

(***************************************************************************)
(* The download directory and get_downloaded_comics (commands.rs, lines    *)
(* 202-246).  A name is the sequence of its parts.                         *)
(***************************************************************************)
\* The prefix ".下载中-" of line 294, spelled in ASCII.
DirPrefix == ".downloading-"

\* comic.title: one title per comic.
Title(c) == <<"title">> \o [k \in 1..c |-> "i"]

\* format!(".下载中-{comic_title}") (line 294).
TempName(c) == <<DirPrefix>> \o Title(c)

\* The entries of download_dir: the temp and the final directories there are.
Entries ==
    {[name |-> TempName(c), dir |-> temp_dir[c], comic |-> c] :
        c \in {c \in Library : temp_dir[c].exists}}
    \cup {[name |-> Title(c), dir |-> final_dir[c], comic |-> c] :
        c \in {c \in Library : final_dir[c].exists}}

\* A variant of IsTempName that takes no entry for a temp directory.
NeverTempName(name) == FALSE

\* file_name().starts_with(".下载中-") (line 215).
IsTempName(name) == Len(name) > 0 /\ Head(name) = DirPrefix

\* The comics that get_downloaded_comics returns: those read from the
\* metadata file of every entry that is not a temp directory and has one.
GetDownloadedComics ==
    {e.comic : e \in {e \in Entries : ~IsTempName(e.name) /\ e.dir.meta}}

(***************************************************************************)
(* The metadata file: DownloadTask::save_metadata (lines 458-475) and      *)
(* Comic::from_metadata (comic.rs, lines 167-184).  A JSON object is the   *)
(* function from its keys to their values.                                 *)
(***************************************************************************)
\* The Comics handed to save_metadata.
ComicSnapshots ==
    [id : Comics,
     title : {Title(c) : c \in Comics},
     cover : {"cover"},
     category : {"category"},
     image_count : {NumImgs, LongImgs},
     tags : {<<>>, <<[name |-> "name", url |-> "url"]>>},
     intro : {"intro"},
     is_downloaded : {None, Some(TRUE), Some(FALSE)},
     img_list : {<<>>, <<[caption |-> "caption", url |-> "url"]>>}]

\* Serialize for Comic: rename_all = "camelCase", and is_downloaded skipped
\* when it is None (comic.rs, lines 14-37).
ToJson(c) ==
    LET always == [id |-> c.id, title |-> c.title, cover |-> c.cover,
                   category |-> c.category, imageCount |-> c.image_count,
                   tags |-> c.tags, intro |-> c.intro, imgList |-> c.img_list]
    IN  IF c.is_downloaded = None
          THEN always
          ELSE always @@ [isDownloaded |-> CHOOSE b \in c.is_downloaded : TRUE]

\* Deserialize for Comic: a missing Option field is None.
FromJson(json) ==
    [id |-> json.id, title |-> json.title, cover |-> json.cover,
     category |-> json.category, image_count |-> json.imageCount,
     tags |-> json.tags, intro |-> json.intro,
     is_downloaded |-> IF "isDownloaded" \in DOMAIN json
                         THEN Some(json.isDownloaded) ELSE None,
     img_list |-> json.imgList]

\* A variant of Manifested that writes the Comic as it is.
ManifestedAsIs(c) == c

\* The Comic that save_metadata serializes (lines 459-461).
Manifested(c) == [c EXCEPT !.is_downloaded = None]

\* save_metadata writes the metadata file.
SaveMetadata ==
    /\ manifest_pc = "new"
    /\ manifest' = ToJson(Manifested(snapshot))
    /\ manifest_pc' = "saved"
    /\ UNCHANGED <<snapshot, read_back>>
    /\ Internal
    /\ UNCHANGED <<taskVars, dirVars, resuming, completed, announced, arrived, speedVars, pageVars, configVars, planVars>>

\* download_dir.join(&comic.title).exists() (comic.rs, lines 176-181).
TitleExists(title) == \E c \in Library : Title(c) = title /\ final_dir[c].exists

\* from_metadata reads the metadata file.
FromMetadata ==
    /\ manifest_pc = "saved"
    /\ read_back' = [FromJson(manifest) EXCEPT
                        !.is_downloaded = Some(TitleExists(FromJson(manifest).title))]
    /\ manifest_pc' = "read"
    /\ UNCHANGED <<snapshot, manifest>>
    /\ Internal
    /\ UNCHANGED <<taskVars, dirVars, resuming, completed, announced, arrived, speedVars, pageVars, configVars, planVars>>

(***************************************************************************)
(* DownloadManager::emit_download_speed_loop (lines 139-150).              *)
(***************************************************************************)
\* The divisor of line 144, applied twice.
Kibi == 1024
MiB == Kibi * Kibi

\* The two decimals of "{:.2}" (line 145): the text counts hundredths.
PerUnit == 100

\* format!("{:.2} MB/s") of bytes / 1024 / 1024: the hundredths of a MiB that
\* the text shows, rounded to the nearest.
Speed(bytes) == (PerUnit * bytes + MiB \div 2) \div MiB

\* The number of bytes that a speed text states.
StatedBytes(speed) == (speed * MiB) \div PerUnit

\* A variant of AfterSwap: the tick loads the counter and leaves it.
AfterLoad(bytes) == bytes

\* byte_per_sec after swap(0) (line 143).
AfterSwap(bytes) == 0

\* tokio::time::interval (line 139) keeps its default MissedTickBehavior,
\* Burst: the next tick is due one period after this one was due.  The first
\* tick is due at once.
NextDeadline == deadline + 1

\* A second passes, whether or not the runtime has polled the speed loop.
SecondPasses ==
    /\ now < MaxSeconds
    /\ now' = now + 1
    /\ ticked' = FALSE
    /\ Internal
    /\ UNCHANGED <<taskVars, dirVars, resuming, completed, announced, arrived,
                   byte_per_sec, bytes_added, swapped, emitted, deadline,
                   manifestVars, pageVars, configVars, planVars>>

\* One tick (lines 142-147): interval.tick() returns once its deadline has
\* come, the counter is swapped with zero and the speed emitted.
EmitDownloadSpeed ==
    /\ deadline <= now
    /\ deadline' = NextDeadline
    /\ ticked' = TRUE
    /\ now' = now
    /\ byte_per_sec' = AfterSwap(byte_per_sec)
    /\ swapped' = swapped + byte_per_sec
    /\ emitted' = emitted + StatedBytes(Speed(byte_per_sec))
    /\ bytes_added' = bytes_added
    /\ Internal
    /\ UNCHANGED <<taskVars, dirVars, resuming, completed, announced, arrived, manifestVars, pageVars, configVars, planVars>>

(***************************************************************************)
(* The specification.                                                      *)
(***************************************************************************)
\* The commands, called for the comics of C.
Commands(C) ==
    \/ \E c \in C : Submit(c)
    \/ \E c \in C : Pause(c)
    \/ \E c \in C : Cancel(c)
    \/ \E c \in C : ResumeRead(c)
    \/ \E c \in C : ResumeCreate(c)

\* The steps of the comic tasks and of the image tasks in which nothing fails.
ProgressSteps ==
    \/ \E t \in Tasks : ProcessStart(t)
    \/ \E t \in Tasks : ProcessReadState(t)
    \/ \E t \in Tasks : AcquireComicPermitQueues(t)
    \/ \E t \in Tasks : AcquireComicPermit(t)
    \/ \E t \in Tasks : SendDownloading(t)
    \/ \E t \in Tasks : HandleStateChange(t)
    \/ \E t \in Tasks : ProcessExit(t)
    \/ \E t \in Tasks : DownloadComicSpawns(t)
    \/ \E t \in Tasks : DownloadComicIncomplete(t)
    \/ \E t \in Tasks : DownloadComicCompletes(t)
    \/ \E t \in Tasks, i \in Imgs : ImgProcessStart(t, i)
    \/ \E t \in Tasks, i \in Imgs : ImgReadDownloading(t, i)
    \/ \E t \in Tasks, i \in Imgs : AcquireImgPermit(t, i)
    \/ \E t \in Tasks, i \in Imgs : ImgHandleStateChange(t, i)
    \/ \E t \in Tasks, i \in Imgs : ImgSkip(t, i)
    \/ \E t \in Tasks, i \in Imgs : ImgFetchStarts(t, i)
    \/ \E t \in Tasks, i \in Imgs : ImgSaved(t, i)
    \/ \E t \in Tasks, i \in Imgs : ImgEmits(t, i)
    \/ \E t \in Tasks, i \in Imgs : ImgAborted(t, i)

\* The steps in which the file system or a fetch fails.
FailureSteps ==
    \/ \E t \in Tasks : DownloadComicCreateDirFails(t)
    \/ \E t \in Tasks : DownloadComicSaveMetadataFails(t)
    \/ \E t \in Tasks : DownloadComicRenameFails(t)
    \/ \E t \in Tasks, i \in Imgs : ImgFetchFails(t, i)
    \/ \E t \in Tasks, i \in Imgs : ImgWriteFails(t, i)

\* The steps of the comic tasks and of the image tasks.
TaskSteps == ProgressSteps \/ FailureSteps

Next == Commands(Comics) \/ TaskSteps

Spec == Init /\ [][Next]_vars

\* The steps of the tokio task that runs DownloadTask::process for task t: its
\* loop and the pipeline future that the loop polls.
ComicTaskSteps(t) ==
    \/ ProcessStart(t)
    \/ ProcessReadState(t)
    \/ AcquireComicPermitQueues(t)
    \/ AcquireComicPermit(t)
    \/ SendDownloading(t)
    \/ HandleStateChange(t)
    \/ ProcessExit(t)
    \/ DownloadComicSpawns(t)
    \/ DownloadComicIncomplete(t)
    \/ DownloadComicCompletes(t)
    \/ DownloadComicCreateDirFails(t)
    \/ DownloadComicSaveMetadataFails(t)
    \/ DownloadComicRenameFails(t)

\* The steps of the tokio task that runs DownloadImgTask::process.
ImgTaskSteps(t, i) ==
    \/ ImgProcessStart(t, i)
    \/ ImgReadDownloading(t, i)
    \/ AcquireImgPermit(t, i)
    \/ ImgHandleStateChange(t, i)
    \/ ImgSkip(t, i)
    \/ ImgFetchStarts(t, i)
    \/ ImgSaved(t, i)
    \/ ImgEmits(t, i)
    \/ ImgAborted(t, i)
    \/ ImgFetchFails(t, i)
    \/ ImgWriteFails(t, i)

\* The runtime polls every spawned task that is ready (async_runtime::spawn at line
\* 92, JoinSet::spawn at line 243); commands come or do not.
Scheduling ==
    /\ \A t \in Tasks : WF_vars(ComicTaskSteps(t))
    /\ \A t \in Tasks, i \in Imgs : WF_vars(ImgTaskSteps(t, i))

\* Comics are submitted, paused, resumed and cancelled, and nothing fails.
NextFair == Commands(Comics) \/ ProgressSteps

SpecFair == Init /\ [][NextFair]_vars /\ Scheduling

\* One comic, downloaded again and again, with room for its tasks to overlap.
InitRetry ==
    /\ download_tasks = [c \in Library |-> 0]
    /\ created = 0
    /\ comic = [t \in Tasks |-> 0]
    /\ state = [t \in Tasks |-> "None"]
    /\ downloaded_img_count = [t \in Tasks |-> 0]
    /\ total_img_count = [t \in Tasks |-> 0]
    /\ comic_sem = RetryConcurrency
    /\ comic_waiters = <<>>
    /\ img_sem = ImgConcurrency
    /\ loop = [t \in Tasks |-> NoLoop]
    /\ pipeline = [t \in Tasks |-> "none"]
    /\ img = [t \in Tasks |-> [i \in Imgs |-> NoImg]]
    /\ temp_dir = [c \in Library |-> NoDir]
    /\ final_dir = [c \in Library |-> NoDir]
    /\ resuming = [c \in Library |-> 0]
    /\ last_cmd = NoCmd
    /\ cmds_left = RetryCmds
    /\ completed = {}
    /\ announced = [t \in Tasks |-> TRUE]
    /\ arrived = <<>>
    /\ byte_per_sec = 0
    /\ bytes_added = 0
    /\ swapped = 0
    /\ emitted = 0
    /\ now = 0
    /\ deadline = 0
    /\ ticked = FALSE
    /\ snapshot = NoComic
    /\ manifest = NoJson
    /\ read_back = NoComic
    /\ manifest_pc = "new"
    /\ html = NoHtml
    /\ page_result = Err
    /\ page_pc = "none"
    /\ download_format = "Jpeg"
    /\ undeletable = {}
    /\ img_list = <<>>
    /\ plan = NoPlan
    /\ plan_pc = "none"

NextRetry == Commands({1}) \/ TaskSteps

SpecRetry == InitRetry /\ [][NextRetry]_vars

\* The comic of LongImgs images, downloaded and downloaded again.
NextLong == Commands({LongComic}) \/ TaskSteps

SpecLong == Init /\ [][NextLong]_vars

\* The comic of LongImgs images, with the ticks of the speed loop.
NextSpeed == Commands({LongComic}) \/ TaskSteps \/ EmitDownloadSpeed \/ SecondPasses

SpecSpeed == Init /\ [][NextSpeed]_vars

\* save_config (commands.rs, lines 33-64): the Config of the state is replaced
\* at line 47, whether the save to the config file that follows succeeds or
\* not; the result of the command is not followed.
SaveConfig(format) ==
    /\ Called(Cmd("save_config", 0, "none"))
    /\ download_format' = format
    /\ UNCHANGED <<taskVars, dirVars, resuming, completed, announced, arrived,
                   speedVars, manifestVars, pageVars, undeletable, planVars>>

\* The sets of files that remove_file fails on.
Undeletables == {{}, {ImgFile(1, "png")}}

\* The comic of LongImgs images is submitted and cancelled under any
\* configured format, which the user changes between and during the downloads.
InitFormat ==
    /\ download_tasks = [c \in Library |-> 0]
    /\ created = 0
    /\ comic = [t \in Tasks |-> 0]
    /\ state = [t \in Tasks |-> "None"]
    /\ downloaded_img_count = [t \in Tasks |-> 0]
    /\ total_img_count = [t \in Tasks |-> 0]
    /\ comic_sem = ComicConcurrency
    /\ comic_waiters = <<>>
    /\ img_sem = ImgConcurrency
    /\ loop = [t \in Tasks |-> NoLoop]
    /\ pipeline = [t \in Tasks |-> "none"]
    /\ img = [t \in Tasks |-> [i \in Imgs |-> NoImg]]
    /\ temp_dir = [c \in Library |-> NoDir]
    /\ final_dir = [c \in Library |-> NoDir]
    /\ resuming = [c \in Library |-> 0]
    /\ last_cmd = NoCmd
    /\ cmds_left = FormatCmds
    /\ completed = {}
    /\ announced = [t \in Tasks |-> TRUE]
    /\ arrived = <<>>
    /\ byte_per_sec = 0
    /\ bytes_added = 0
    /\ swapped = 0
    /\ emitted = 0
    /\ now = 0
    /\ deadline = 0
    /\ ticked = FALSE
    /\ snapshot = NoComic
    /\ manifest = NoJson
    /\ read_back = NoComic
    /\ manifest_pc = "new"
    /\ html = NoHtml
    /\ page_result = Err
    /\ page_pc = "none"
    /\ download_format \in Formats
    /\ undeletable \in Undeletables
    /\ img_list = <<>>
    /\ plan = NoPlan
    /\ plan_pc = "none"

NextFormat ==
    \/ Submit(LongComic)
    \/ Cancel(LongComic)
    \/ TaskSteps
    \/ \E format \in Formats : SaveConfig(format)

SpecFormat == InitFormat /\ [][NextFormat]_vars

\* A metadata file is written for any Comic and read back, whichever final
\* directories there are.
InitManifest ==
    /\ download_tasks = [c \in Library |-> 0]
    /\ created = 0
    /\ comic = [t \in Tasks |-> 0]
    /\ state = [t \in Tasks |-> "None"]
    /\ downloaded_img_count = [t \in Tasks |-> 0]
    /\ total_img_count = [t \in Tasks |-> 0]
    /\ comic_sem = ComicConcurrency
    /\ comic_waiters = <<>>
    /\ img_sem = ImgConcurrency
    /\ loop = [t \in Tasks |-> NoLoop]
    /\ pipeline = [t \in Tasks |-> "none"]
    /\ img = [t \in Tasks |-> [i \in Imgs |-> NoImg]]
    /\ temp_dir = [c \in Library |-> NoDir]
    /\ final_dir \in [Library -> {NoDir, MetadataSaved(TempDirCreated(NoDir))}]
    /\ resuming = [c \in Library |-> 0]
    /\ last_cmd = NoCmd
    /\ cmds_left = 0
    /\ completed = {}
    /\ announced = [t \in Tasks |-> TRUE]
    /\ arrived = <<>>
    /\ byte_per_sec = 0
    /\ bytes_added = 0
    /\ swapped = 0
    /\ emitted = 0
    /\ now = 0
    /\ deadline = 0
    /\ ticked = FALSE
    /\ snapshot \in ComicSnapshots
    /\ manifest = NoJson
    /\ read_back = NoComic
    /\ manifest_pc = "new"
    /\ html = NoHtml
    /\ page_result = Err
    /\ page_pc = "none"
    /\ download_format = "Jpeg"
    /\ undeletable = {}
    /\ img_list = <<>>
    /\ plan = NoPlan
    /\ plan_pc = "none"

NextManifest == SaveMetadata \/ FromMetadata

SpecManifest == InitManifest /\ [][NextManifest]_vars

(***************************************************************************)
(* SearchResult::from_html (search_result.rs, lines 20-90) and             *)
(* GetFavoriteResult::from_html (get_favorite_result.rs, lines 21-72): the *)
(* page numbers.  Of the page, html keeps what the selectors find: the     *)
(* text of the first .thispage, and of the last paginator anchor (tag      *)
(* search, favorites) or of the result count (keyword search).  An         *)
(* element is None (not in the page) or Some(text); the text <<>> is an    *)
(* element without a text node.                                            *)
(***************************************************************************)
PageChars == {"0", "1", "2", "5", "-", ",", "x"}

Texts == UNION {[1..n -> PageChars] : n \in 0..MaxText}

Elements == {None} \cup {Some(text) : text \in Texts}

PageKinds == {"keyword", "tag", "favorites"}

Htmls == [kind : PageKinds, thispage : Elements, last : Elements]

Ok(current_page, total_page) ==
    [ok |-> TRUE, current_page |-> current_page, total_page |-> total_page]

\* The value of an Option that is Some.
Unwrap(o) == CHOOSE x \in o : TRUE

Digits == <<"0", "1", "2", "3", "4", "5", "6", "7", "8", "9">>

IsDigit(ch) == \E k \in DOMAIN Digits : Digits[k] = ch

DigitValue(ch) == (CHOOSE k \in DOMAIN Digits : Digits[k] = ch) - 1

RECURSIVE Magnitude(_)
Magnitude(digits) ==
    IF digits = <<>>
      THEN 0
      ELSE Radix * Magnitude(SubSeq(digits, 1, Len(digits) - 1))
             + DigitValue(digits[Len(digits)])

\* str::parse::<i64>: an optional sign, then digits and nothing else (None:
\* Err).  The texts are too short to overflow.
ParseI64(text) ==
    LET signed == text # <<>> /\ text[1] \in {"-", "+"}
        digits == IF signed THEN Tail(text) ELSE text
    IN  IF digits = <<>> \/ \E k \in DOMAIN digits : ~IsDigit(digits[k])
          THEN None
          ELSE Some(IF signed /\ text[1] = "-"
                      THEN 0 - Magnitude(digits) ELSE Magnitude(digits))

\* replace(',', "") (search_result.rs, line 78).
WithoutCommas(text) == SelectSeq(text, LAMBDA ch : ch # ",")

\* The i64 division of Rust truncates.
TruncDiv(a, b) == IF a >= 0 THEN a \div b ELSE 0 - ((0 - a) \div b)

MaxOf(a, b) == IF a >= b THEN a ELSE b

\* current_page (search_result.rs, lines 33-46; get_favorite_result.rs,
\* lines 31-44): None is the Err of the `?`.
CurrentPage(thispage) ==
    IF thispage = None THEN Some(1) ELSE ParseI64(Unwrap(thispage))

\* total_page from the last paginator anchor (search_result.rs, lines 49-63;
\* get_favorite_result.rs, lines 46-60).
TotalPageOfAnchor(a, current_page) ==
    IF a = None
      THEN Some(1)
      ELSE LET last == ParseI64(Unwrap(a))
           IN  IF last = None THEN None
                              ELSE Some(MaxOf(Unwrap(last), current_page))

\* total_page from the number of results (search_result.rs, lines 65-81).
TotalPageOfResults(b) ==
    IF b = None
      THEN None
      ELSE LET total == ParseI64(WithoutCommas(Unwrap(b)))
           IN  IF total = None
                 THEN None
                 ELSE Some(TruncDiv(Unwrap(total) + PAGE_SIZE - 1, PAGE_SIZE))

SearchResultFromHtml(page, is_search_by_tag) ==
    LET current_page == CurrentPage(page.thispage)
    IN  IF current_page = None
          THEN Err
          ELSE LET total_page == IF is_search_by_tag
                                   THEN TotalPageOfAnchor(page.last, Unwrap(current_page))
                                   ELSE TotalPageOfResults(page.last)
               IN  IF total_page = None
                     THEN Err
                     ELSE Ok(Unwrap(current_page), Unwrap(total_page))

GetFavoriteResultFromHtml(page) ==
    LET current_page == CurrentPage(page.thispage)
    IN  IF current_page = None
          THEN Err
          ELSE LET total_page == TotalPageOfAnchor(page.last, Unwrap(current_page))
               IN  IF total_page = None
                     THEN Err
                     ELSE Ok(Unwrap(current_page), Unwrap(total_page))

\* search_by_keyword and search_by_tag parse the body (wnacg_client.rs, lines
\* 131 and 153).
Search ==
    /\ page_pc = "html"
    /\ html.kind \in {"keyword", "tag"}
    /\ page_result' = SearchResultFromHtml(html, html.kind = "tag")
    /\ page_pc' = "parsed"
    /\ UNCHANGED html
    /\ Internal
    /\ UNCHANGED <<taskVars, dirVars, resuming, completed, announced, arrived,
                   speedVars, manifestVars, configVars, planVars>>

\* get_favorite parses the body (wnacg_client.rs, line 236).
GetFavorite ==
    /\ page_pc = "html"
    /\ html.kind = "favorites"
    /\ page_result' = GetFavoriteResultFromHtml(html)
    /\ page_pc' = "parsed"
    /\ UNCHANGED html
    /\ Internal
    /\ UNCHANGED <<taskVars, dirVars, resuming, completed, announced, arrived,
                   speedVars, manifestVars, configVars, planVars>>

\* A result page of any content is parsed.
InitPages ==
    /\ download_tasks = [c \in Library |-> 0]
    /\ created = 0
    /\ comic = [t \in Tasks |-> 0]
    /\ state = [t \in Tasks |-> "None"]
    /\ downloaded_img_count = [t \in Tasks |-> 0]
    /\ total_img_count = [t \in Tasks |-> 0]
    /\ comic_sem = ComicConcurrency
    /\ comic_waiters = <<>>
    /\ img_sem = ImgConcurrency
    /\ loop = [t \in Tasks |-> NoLoop]
    /\ pipeline = [t \in Tasks |-> "none"]
    /\ img = [t \in Tasks |-> [i \in Imgs |-> NoImg]]
    /\ temp_dir = [c \in Library |-> NoDir]
    /\ final_dir = [c \in Library |-> NoDir]
    /\ resuming = [c \in Library |-> 0]
    /\ last_cmd = NoCmd
    /\ cmds_left = 0
    /\ completed = {}
    /\ announced = [t \in Tasks |-> TRUE]
    /\ arrived = <<>>
    /\ byte_per_sec = 0
    /\ bytes_added = 0
    /\ swapped = 0
    /\ emitted = 0
    /\ now = 0
    /\ deadline = 0
    /\ ticked = FALSE
    /\ snapshot = NoComic
    /\ manifest = NoJson
    /\ read_back = NoComic
    /\ manifest_pc = "read"
    /\ html \in Htmls
    /\ page_result = Err
    /\ page_pc = "html"
    /\ download_format = "Jpeg"
    /\ undeletable = {}
    /\ img_list = <<>>
    /\ plan = NoPlan
    /\ plan_pc = "none"

NextPages == Search \/ GetFavorite

SpecPages == InitPages /\ [][NextPages]_vars

(***************************************************************************)
(* The download plan of download_comic (lines 209-244): the urls collected *)
(* from img_list, the total stored, the image tasks spawned, and the file   *)
(* number under which download_img saves (lines 562-564, 600-602).  A url  *)
(* is the sequence of its path segments, so that ends_with is the test of  *)
(* its last segment.                                                       *)
(***************************************************************************)
Sentinel == <<"themes", "shoucang.jpg">>

Urls == {<<"data", "01.jpg">>, <<"data", "02.jpg">>, Sentinel}

ImgLists == UNION {[1..n -> Urls] : n \in 0..MaxList}

\* url.ends_with("shoucang.jpg").
EndsWith(url, suffix) == url # <<>> /\ url[Len(url)] = suffix

NotSentinel(url) == ~EndsWith(url, "shoucang.jpg")

\* format!("https:{url}").
WithScheme(url) == <<"https:">> \o url

Mapped(seq, Op(_)) == [k \in 1..Len(seq) |-> Op(seq[k])]

\* A variant of ImgUrls without the filter.
AllImgUrls(list) == Mapped(list, WithScheme)

\* Lines 210-217: the urls of img_list, filtered and prefixed.
ImgUrls(list) == Mapped(SelectSeq(list, NotSentinel), WithScheme)

\* Lines 210-220: the urls are collected and their number stored.
CollectImgUrls ==
    /\ plan_pc = "new"
    /\ plan' = [plan EXCEPT !.img_urls = ImgUrls(img_list),
                            !.total_img_count = Len(ImgUrls(img_list))]
    /\ plan_pc' = "stored"
    /\ Internal
    /\ UNCHANGED <<taskVars, dirVars, resuming, completed, announced, arrived,
                   speedVars, manifestVars, pageVars, configVars, img_list>>

\* DownloadImgTask::new(self, url, temp_download_dir, i), with no file yet.
NewImgTask(url, i) == [url |-> url, index |-> i, file |-> 0]

\* Lines 238-244: one turn of the loop over img_urls.into_iter().enumerate();
\* after the last turn the pipeline waits for the tasks.
SpawnImgTask ==
    /\ plan_pc = "stored"
    /\ LET i == Len(plan.join_set)
       IN IF i < Len(plan.img_urls)
            THEN /\ plan' = [plan EXCEPT !.join_set =
                                Append(@, NewImgTask(plan.img_urls[i + 1], i))]
                 /\ plan_pc' = plan_pc
            ELSE /\ plan' = plan
                 /\ plan_pc' = "spawned"
    /\ Internal
    /\ UNCHANGED <<taskVars, dirVars, resuming, completed, announced, arrived,
                   speedVars, manifestVars, pageVars, configVars, img_list>>

\* Lines 562-564 and 600-602: the number in the file name of an image task.
SaveNumber(img_task) == img_task.index + 1

\* An image task of the JoinSet names its file.
NameImgFile(k) ==
    /\ k \in DOMAIN plan.join_set
    /\ plan.join_set[k].file = 0
    /\ plan' = [plan EXCEPT !.join_set[k].file = SaveNumber(plan.join_set[k])]
    /\ plan_pc' = plan_pc
    /\ Internal
    /\ UNCHANGED <<taskVars, dirVars, resuming, completed, announced, arrived,
                   speedVars, manifestVars, pageVars, configVars, img_list>>

\* download_comic is handed any img_list of at most MaxList entries.
InitPlan ==
    /\ download_tasks = [c \in Library |-> 0]
    /\ created = 0
    /\ comic = [t \in Tasks |-> 0]
    /\ state = [t \in Tasks |-> "None"]
    /\ downloaded_img_count = [t \in Tasks |-> 0]
    /\ total_img_count = [t \in Tasks |-> 0]
    /\ comic_sem = ComicConcurrency
    /\ comic_waiters = <<>>
    /\ img_sem = ImgConcurrency
    /\ loop = [t \in Tasks |-> NoLoop]
    /\ pipeline = [t \in Tasks |-> "none"]
    /\ img = [t \in Tasks |-> [i \in Imgs |-> NoImg]]
    /\ temp_dir = [c \in Library |-> NoDir]
    /\ final_dir = [c \in Library |-> NoDir]
    /\ resuming = [c \in Library |-> 0]
    /\ last_cmd = NoCmd
    /\ cmds_left = MaxCmds
    /\ completed = {}
    /\ announced = [t \in Tasks |-> TRUE]
    /\ arrived = <<>>
    /\ byte_per_sec = 0
    /\ bytes_added = 0
    /\ swapped = 0
    /\ emitted = 0
    /\ now = 0
    /\ deadline = 0
    /\ ticked = FALSE
    /\ snapshot = NoComic
    /\ manifest = NoJson
    /\ read_back = NoComic
    /\ manifest_pc = "new"
    /\ html = NoHtml
    /\ page_result = Err
    /\ page_pc = "none"
    /\ download_format = "Jpeg"
    /\ undeletable = {}
    /\ img_list \in ImgLists
    /\ plan = NoPlan
    /\ plan_pc = "new"

NextPlan ==
    \/ CollectImgUrls
    \/ SpawnImgTask
    \/ \E k \in 1..MaxList : NameImgFile(k)

SpecPlan == InitPlan /\ [][NextPlan]_vars

\* Comics are submitted, paused and cancelled, one paused comic is resumed by the last
\* command, and nothing fails: every fetch, write and directory call succeeds.
InitResume ==
    /\ download_tasks = [c \in Library |-> 0]
    /\ created = 0
    /\ comic = [t \in Tasks |-> 0]
    /\ state = [t \in Tasks |-> "None"]
    /\ downloaded_img_count = [t \in Tasks |-> 0]
    /\ total_img_count = [t \in Tasks |-> 0]
    /\ comic_sem = ComicConcurrency
    /\ comic_waiters = <<>>
    /\ img_sem = ImgConcurrency
    /\ loop = [t \in Tasks |-> NoLoop]
    /\ pipeline = [t \in Tasks |-> "none"]
    /\ img = [t \in Tasks |-> [i \in Imgs |-> NoImg]]
    /\ temp_dir = [c \in Library |-> NoDir]
    /\ final_dir = [c \in Library |-> NoDir]
    /\ resuming = [c \in Library |-> 0]
    /\ last_cmd = NoCmd
    /\ cmds_left = ResumeCmds
    /\ completed = {}
    /\ announced = [t \in Tasks |-> TRUE]
    /\ arrived = <<>>
    /\ byte_per_sec = 0
    /\ bytes_added = 0
    /\ swapped = 0
    /\ emitted = 0
    /\ now = 0
    /\ deadline = 0
    /\ ticked = FALSE
    /\ snapshot = NoComic
    /\ manifest = NoJson
    /\ read_back = NoComic
    /\ manifest_pc = "new"
    /\ html = NoHtml
    /\ page_result = Err
    /\ page_pc = "none"
    /\ download_format = "Jpeg"
    /\ undeletable = {}
    /\ img_list = <<>>
    /\ plan = NoPlan
    /\ plan_pc = "none"

\* The commands before the resume.
EarlierCommands ==
    /\ cmds_left > 1
    /\ \/ \E c \in Comics : Submit(c)
       \/ \E c \in Comics : Pause(c)
       \/ \E c \in Comics : Cancel(c)

\* The last command: resume_download_task for a comic whose task is Paused.
FinalResume ==
    /\ cmds_left = 1
    /\ \E c \in Comics :
        /\ download_tasks[c] # 0
        /\ state[download_tasks[c]] = "Paused"
        /\ ResumeRead(c)

NextResume == EarlierCommands \/ FinalResume \/ ProgressSteps

SpecResume == InitResume /\ [][NextResume]_vars

TypeOK ==
    /\ download_format \in Formats
    /\ undeletable \in Undeletables
    /\ \A c \in Library :
        /\ temp_dir[c].files \subseteq Imgs \X {"jpg", "png", "webp"}
        /\ final_dir[c].files \subseteq Imgs \X {"jpg", "png", "webp"}
    /\ download_tasks \in [Library -> 0..MaxTasks]
    /\ created \in 0..MaxTasks
    /\ cmds_left \in 0..ResumeCmds
    /\ \A t \in Tasks : state[t] \in DownloadTaskState \cup {"None"}
    /\ comic_sem \in 0..RetryConcurrency
    /\ img_sem \in 0..ImgConcurrency
    /\ announced \in [Tasks -> BOOLEAN]
    /\ byte_per_sec + swapped = bytes_added

(***************************************************************************)
(* The claims.                                                             *)
(***************************************************************************)
TasksOf(c) == {t \in Tasks : comic[t] = c}

\* The step is the end of task t's pipeline with the rename done.
Publishes(t) ==
    /\ pipeline[t] = "join"
    /\ pipeline'[t] = "done"
    /\ final_dir'[comic[t]].exists
    /\ temp_dir'[comic[t]] # temp_dir[comic[t]]

\* C1: the final directory of a comic exists only if a task of that comic has
\* reached Completed, and it never holds a partial result: it holds every
\* planned image.
NoPartialPublication ==
    \A c \in Comics :
        final_dir[c].exists
            => /\ \E t \in TasksOf(c) : t \in completed
               /\ Numbers(final_dir[c]) = 1..PlanSize(c)

\* C2: a task's state becomes Completed only in a step at which its two
\* counters are equal and every image task of its pipeline has finished.
CompletedOnlyWhenAllDownloaded ==
    [][\A t \in Tasks :
        (state'[t] = "Completed" /\ state[t] # "Completed")
            => /\ downloaded_img_count[t] = total_img_count[t]
               /\ \A i \in Plan(t) : img[t][i].pc = "exited"]_vars

\* C2's case: a pipeline has just set Completed, all planned images counted.
JustCompleted ==
    \E t \in Tasks :
        /\ state[t] = "Completed"
        /\ loop[t].pc = "break"
        /\ total_img_count[t] = PlanSize(comic[t])
        /\ downloaded_img_count[t] = PlanSize(comic[t])

\* C3 as claimed: a task whose run has ended in a terminal state is Completed
\* if and only if its two counters are equal.
TerminalCompletedIffEqual ==
    \A t \in Tasks :
        (IsTerminal(state[t]) /\ loop[t].pc = "exited")
            => (state[t] = "Completed"
                    <=> downloaded_img_count[t] = total_img_count[t])

\* C3 as amended: a task whose state is Completed has equal counters (a run
\* that ends in Failed or Cancelled may have them equal too).
CompletedImpliesEqual ==
    \A t \in Tasks :
        state[t] = "Completed" => downloaded_img_count[t] = total_img_count[t]

\* C3's case: a run has ended in Completed, its result published.
RunEndedCompleted ==
    \E t \in Tasks :
        /\ state[t] = "Completed"
        /\ loop[t].pc = "exited"
        /\ total_img_count[t] > 0
        /\ final_dir[comic[t]].exists

\* C4: downloaded_img_count never exceeds total_img_count.
CounterBound ==
    \A t \in Tasks : downloaded_img_count[t] <= total_img_count[t]

\* C4's case: a comic was cancelled with its image saved and downloaded again:
\* the second task has counted the image that the first task had counted.
CountedAgainAfterCancel ==
    \E t1, t2 \in Tasks :
        /\ t1 < t2
        /\ comic[t1] = comic[t2]
        /\ state[t1] = "Cancelled"
        /\ downloaded_img_count[t1] = PlanSize(comic[t1])
        /\ downloaded_img_count[t2] = PlanSize(comic[t2])

\* C5: the tasks whose state is Downloading are at most comic_sem's capacity,
\* each of them holding a comic permit.
DownloadingHoldsPermit ==
    /\ Cardinality({t \in Tasks : state[t] = "Downloading"}) <= ComicConcurrency
    /\ \A t \in Tasks : state[t] = "Downloading" => loop[t].permit

ImgPermitHolders == {p \in Tasks \X Imgs : img[p[1]][p[2]].permit}

\* C6: an image task takes a step of download_img (skip check, fetch, write)
\* only while it holds an image permit, and the holders of image permits are
\* at most img_sem's capacity.
ImgAdvancesOnlyWithPermit ==
    [][/\ Cardinality(ImgPermitHolders) <= ImgConcurrency
       /\ \A t \in Tasks, i \in Imgs :
            (img'[t][i].dpc # img[t][i].dpc /\ img'[t][i].dpc \in {"fetch", "done", "failed"})
                => img[t][i].permit]_vars

\* C6's case: one image task fetches with the only permit while an image task
\* of another comic, its comic Downloading, waits for one.
ImgPermitContended ==
    \E t1, t2 \in Tasks : \E i1, i2 \in Imgs :
        /\ comic[t1] # comic[t2]
        /\ img[t1][i1].dpc = "fetch"
        /\ img[t1][i1].permit
        /\ ImgAcquireBranch(img[t2][i2])
        /\ img_sem = 0

\* C7: a task whose state is Cancelled does not move to Completed or Failed
\* and does not produce the final directory.
CancelledStaysCancelled ==
    [][\A t \in Tasks :
        state[t] = "Cancelled"
            => /\ state'[t] \notin {"Completed", "Failed"}
               /\ ~Publishes(t)]_vars

\* C8: submit on a comic whose registry entry is Pending, Downloading or
\* Paused changes nothing: no task is constructed, the entry, the states,
\* the counters, the loops and the directories are as before.
IdempotentSubmit ==
    [][\A c \in Comics :
        (/\ last_cmd' = Cmd("submit", c, last_cmd'.res)
         /\ cmds_left' = cmds_left - 1
         /\ download_tasks[c] # 0
         /\ state[download_tasks[c]] \in {"Pending", "Downloading", "Paused"})
            => UNCHANGED <<taskVars, dirVars, resuming, completed>>]_vars

\* C8's case: submit has just returned for a comic whose task is Paused.
SubmittedWhilePaused ==
    \E c \in Comics :
        /\ last_cmd = Cmd("submit", c, "kept")
        /\ state[download_tasks[c]] = "Paused"

\* C9: resume on a terminal entry replaces it with a fresh task (Pending, both
\* counters 0, its loop scheduled); resume on a Pending, Downloading or
\* Paused entry constructs no task and leaves that task Pending.
ResumeRecreatesOrSetsPending ==
    [][\A c \in Comics :
        /\ (/\ last_cmd'.op = "resume" /\ last_cmd'.comic = c
            /\ cmds_left' = cmds_left
            /\ IsTerminal(state[download_tasks[c]]))
              => /\ download_tasks'[c] = created + 1
                 /\ created' = created + 1
                 /\ state'[created + 1] = "Pending"
                 /\ downloaded_img_count'[created + 1] = 0
                 /\ total_img_count'[created + 1] = 0
                 /\ loop'[created + 1].pc = "spawned"
        /\ (/\ last_cmd'.op = "resume" /\ last_cmd'.comic = c
            /\ cmds_left' = cmds_left - 1
            /\ download_tasks[c] # 0
            /\ IsActive(state[download_tasks[c]]))
              => /\ created' = created
                 /\ download_tasks' = download_tasks
                 /\ state'[download_tasks[c]] = "Pending"]_vars

\* C10: right after pause(id) has returned Ok, the state of the registry
\* entry of id is Paused.
PausedAfterPause ==
    (last_cmd.op = "pause" /\ last_cmd.res = "ok")
        => state[download_tasks[last_cmd.comic]] = "Paused"

\* C11: pause, resume and cancel called with an id that has no registry entry
\* return an error and change nothing: no task, state, counter, permit, loop
\* or directory is touched.
UnknownIdRejected ==
    [][\A c \in Comics :
        (/\ cmds_left' = cmds_left - 1
         /\ last_cmd'.comic = c
         /\ last_cmd'.op \in {"pause", "resume", "cancel"}
         /\ download_tasks[c] = 0)
            => /\ last_cmd'.res = "err"
               /\ UNCHANGED <<taskVars, dirVars, resuming, completed>>]_vars

\* C11's case: resume has just failed for an unknown id while the task of
\* another comic is running.
UnknownIdResumed ==
    \E c \in Comics :
        /\ last_cmd = Cmd("resume", c, "err")
        /\ download_tasks[c] = 0
        /\ \E t \in Tasks : state[t] = "Downloading"

\* C12: Completed, Cancelled and Failed are terminal for a task object: once
\* its channel holds one of them, no later pause, resume, cancel or pipeline
\* step changes the state of that task.
TerminalStateKept ==
    [][\A t \in Tasks : IsTerminal(state[t]) => state'[t] = state[t]]_vars

\* C13: when a paused task has been resumed, no further command is issued and
\* nothing fails, the task goes on to Completed: as long as the resumed task
\* is still Pending, some task can take a step (the comic permits and the
\* image permits never block each other). A Pending task whose pipeline has
\* run is the task that the last command resumed.
ResumedTaskNotStuck ==
    \A t \in Tasks :
        (/\ cmds_left = 0
         /\ state[t] = "Pending"
         /\ pipeline[t] # "none"
         /\ loop[t].pc # "exited") => ENABLED ProgressSteps

\* C14, as stated: from the moment the channel holds Paused until resume
\* changes it, downloaded_img_count does not change.
FrozenWhilePaused ==
    [][\A t \in Tasks :
        (state[t] = "Paused" /\ state'[t] = "Paused")
            => downloaded_img_count'[t] = downloaded_img_count[t]]_vars

\* C14, amended: while the channel holds Paused, downloaded_img_count is only
\* changed by an image task that read Downloading at its last read of the
\* state and holds an image permit; an image task that has read Paused does
\* not count.
FrozenOncePausedIsRead ==
    [][\A t \in Tasks :
        (state[t] = "Paused" /\ downloaded_img_count'[t] # downloaded_img_count[t])
            => \E i \in Imgs :
                /\ img[t][i].dl /\ img[t][i].permit
                /\ img[t][i].dpc # "done" /\ img'[t][i].dpc = "done"
                /\ downloaded_img_count'[t] = downloaded_img_count[t] + 1]_vars

\* C14's case: the task is Paused, its image task has handled the change with
\* its request in flight, and the image is not counted.
ImgFrozenInFlight ==
    \E t \in Tasks, i \in Imgs :
        /\ state[t] = "Paused"
        /\ img[t][i].pc = "sel" /\ ~img[t][i].changed /\ ~img[t][i].dl
        /\ img[t][i].dpc = "fetch"
        /\ downloaded_img_count[t] = 0

\* C15: a failure of the temp-directory creation, of the manifest write or of
\* the final rename each ends the task in Failed: when the pipeline returns
\* before it has spawned its image tasks, or returns with every image counted
\* and the temp directory not renamed, the task's state is Failed.
FailureEndsFailed ==
    [][\A t \in Tasks :
        (/\ pipeline'[t] = "done"
         /\ \/ pipeline[t] = "start"
            \/ /\ pipeline[t] = "join"
               /\ AllImgsDownloaded(t)
               /\ temp_dir' = temp_dir)
            => state'[t] = "Failed"]_vars

\* C16: when at least one image of a task has failed, the pipeline ends the
\* task in Failed with downloaded_img_count below total_img_count and leaves
\* the temp directory and the final directory as they are; and an image task
\* that finds its file in the temp directory counts it without a fetch, which
\* is what the images written before the failure meet in a retry.
ImgFailureEndsFailed ==
    [][\A t \in Tasks :
        /\ (/\ pipeline[t] = "join" /\ pipeline'[t] = "done"
            /\ \E i \in Plan(t) : img[t][i].dpc = "failed")
                => /\ state'[t] = "Failed"
                   /\ downloaded_img_count'[t] < total_img_count'[t]
                   /\ UNCHANGED dirVars
        /\ \A i \in Plan(t) :
            (/\ img[t][i].dpc = "start"
             /\ img'[t][i].dpc \notin {"start", "dropped"}
             /\ i \in Numbers(temp_dir[comic[t]]))
                => /\ img'[t][i].dpc = "done"
                   /\ downloaded_img_count'[t] = downloaded_img_count[t] + 1]_vars

\* C16's case: the first task of the long comic saved its first image, failed
\* on the second and is Failed with no final directory; the task of the retry
\* has counted the first image.
RetriedAfterImgFailure ==
    \E t1, t2 \in Tasks :
        /\ t1 < t2 /\ comic[t1] = LongComic /\ comic[t2] = LongComic
        /\ state[t1] = "Failed"
        /\ img[t1][1].dpc = "done" /\ img[t1][LongImgs].dpc = "failed"
        /\ downloaded_img_count[t1] < total_img_count[t1]
        /\ ~final_dir[LongComic].exists
        /\ img[t2][1].dpc = "done"
        /\ img[t2][LongImgs].dpc = "start"
        /\ downloaded_img_count[t2] = 1

\* C17: after a task has reached Completed, resume re-creates a task that
\* finds all image files already present (and so reaches Completed without a
\* fetch): when resume constructs a task for a comic whose task is Completed,
\* the comic's temp directory holds every planned image.
ResumedAfterCompletedFindsFiles ==
    [][\A c \in Comics :
        (/\ last_cmd'.op = "resume" /\ last_cmd'.comic = c
         /\ created' # created
         /\ state[download_tasks[c]] = "Completed")
            => Numbers(temp_dir[c]) = 1..PlanSize(c)]_vars

\* C18: every change of a task's state is followed by a download_task event
\* that carries the new state, even when several changes happen before the
\* loop wakes: the state that a change has put into the channel is not
\* replaced before an event has carried it.
EveryChangeAnnounced ==
    [][\A t \in Tasks : state'[t] # state[t] => announced[t]]_vars

\* C19: the download_task events of one task never go backwards, although the
\* loop and the image tasks emit concurrently: once an event has carried the
\* state that the channel holds, no image task delivers an event that carries
\* another, older state.
EventsInOrder ==
    [][\A t \in Tasks, i \in Imgs :
        (img[t][i].pc = "emit" /\ img'[t][i].pc # "emit" /\ announced[t])
            => img[t][i].ev.state = state[t]]_vars

\* C20, as stated: the sizes that the download_speed events state, plus the
\* counter, add up to the bytes added by the image writes.
EmittedBytesAddUp == emitted + byte_per_sec = bytes_added

\* C20, amended: byte_per_sec only grows between ticks, a tick swaps it to
\* zero, the values that the ticks swapped out plus the counter add up to the
\* bytes added by the image writes, and the skip path adds no bytes.
SwappedBytesAddUp ==
    [][/\ swapped' + byte_per_sec' = bytes_added'
       /\ byte_per_sec' < byte_per_sec
            => /\ byte_per_sec' = 0
               /\ swapped' = swapped + byte_per_sec
               /\ UNCHANGED taskVars
       /\ \A t \in Tasks, i \in Imgs :
            (img[t][i].dpc = "start" /\ img'[t][i].dpc = "done")
                => bytes_added' = bytes_added]_vars

\* C20's case: a tick has swapped out the bytes of one image and the counter
\* holds the bytes of a second one, while two tasks have counted more images
\* than were written: one was counted by the skip path.
TickedBetweenWrites ==
    /\ swapped = ImgBytes /\ byte_per_sec = ImgBytes
    /\ \E t1, t2 \in Tasks :
        /\ t1 < t2
        /\ (downloaded_img_count[t1] + downloaded_img_count[t2]) * ImgBytes > bytes_added

\* C21: the one speed loop of a manager emits exactly one download_speed event
\* per one-second tick, never several in a burst: no second event is emitted
\* within the second in which one was emitted.
NoBurstOfSpeedEvents ==
    [][deadline' # deadline => ~ticked]_vars

\* C22: get_downloaded_comics never returns a comic from a directory whose
\* name starts with the temp prefix, so a comic that has no final directory
\* (its download in progress, paused, cancelled or failed) is never listed.
PartialsNotListed ==
    \A c \in Library : c \in GetDownloadedComics => final_dir[c].exists

\* C22's case: one comic is downloaded and listed while another, paused with
\* its metadata written to its temp directory, is not.
ListedBesidePartial ==
    \E c1, c2 \in Comics :
        /\ c1 \in GetDownloadedComics
        /\ c2 \notin GetDownloadedComics
        /\ temp_dir[c2].exists /\ temp_dir[c2].meta
        /\ download_tasks[c2] # 0 /\ state[download_tasks[c2]] = "Paused"

\* C23: the metadata file that save_metadata writes omits is_downloaded, and
\* from_metadata reads back a Comic equal to the one handed to save_metadata
\* in every other field, its is_downloaded telling whether the directory
\* <download_dir>/<title> exists when it is read.
ManifestRoundTrip ==
    /\ manifest_pc # "new" => "isDownloaded" \notin DOMAIN manifest
    /\ manifest_pc = "read" =>
        read_back = [snapshot EXCEPT !.is_downloaded = Some(TitleExists(snapshot.title))]

\* C23's case: a Comic that said it was not downloaded, with a tag and an
\* image, is read back as downloaded because its final directory exists.
ManifestReadBack ==
    /\ manifest_pc = "read"
    /\ snapshot.is_downloaded = Some(FALSE)
    /\ snapshot.tags # <<>> /\ snapshot.img_list # <<>>
    /\ read_back.is_downloaded = Some(TRUE)

\* Task a began to wait for a comic permit before task b, and both still wait.
ArrivedBefore(a, b) ==
    \E i, j \in DOMAIN arrived : i < j /\ arrived[i] = a /\ arrived[j] = b

\* C24: comic permits are handed out in the order of arrival: a task does not
\* go from Pending to Downloading while a task that began to wait before it,
\* and was neither paused nor cancelled since, is still waiting.
PermitsInArrivalOrder ==
    [][\A a, b \in Tasks :
         ArrivedBefore(a, b) => ~(state[b] = "Pending" /\ state'[b] = "Downloading")]_vars

\* C25: every result that from_html returns for a keyword search, a tag search
\* or the favorites has current_page >= 1 and total_page >= current_page.
PagesInOrder ==
    page_pc = "parsed" /\ page_result.ok =>
        page_result.current_page >= 1 /\ page_result.total_page >= page_result.current_page

\* The comic permits that tasks hold: in the local of process, or assigned
\* to their waiting acquire().
ComicPermitsHeld == Cardinality({t \in Tasks : loop[t].permit \/ loop[t].granted})

ImgPermitsHeld == Cardinality({ti \in Tasks \X Imgs : img[ti[1]][ti[2]].permit})

\* No comic task and no image task is alive.
NoTaskRunning ==
    \A t \in Tasks :
        /\ loop[t].pc \in {"none", "exited"}
        /\ \A i \in Imgs : img[t][i].pc \in {"none", "exited"}

\* C26: for each semaphore the available permits plus the permits that live
\* tasks hold are its capacity, and with no task running every permit is
\* available.
PermitsConserved ==
    /\ comic_sem + ComicPermitsHeld = ComicConcurrency
    /\ img_sem + ImgPermitsHeld = ImgConcurrency
    /\ NoTaskRunning => comic_sem = ComicConcurrency /\ img_sem = ImgConcurrency

\* Nothing runs any more after a cancelled task, whose image task was aborted,
\* and a task that completed or failed.
AllPermitsBack ==
    /\ NoTaskRunning
    /\ comic_sem = ComicConcurrency /\ img_sem = ImgConcurrency
    /\ \E t1, t2 \in Tasks :
          /\ state[t1] = "Cancelled" /\ img[t1][1].dpc = "dropped"
          /\ state[t2] \in {"Completed", "Failed"} /\ loop[t2].pc = "exited"

\* C27: a task whose state is Paused and stays Paused gives up its comic
\* permit, and a task that waits in Pending meanwhile, and stays Pending,
\* sees a task other than the paused one in Downloading with the permit.
PausedGivesUpPermit ==
    /\ \A a \in 1..MaxCmds :
          (state[a] = "Paused" /\ loop[a].permit)
            ~> (state[a] # "Paused" \/ ~loop[a].permit)
    /\ \A a \in 1..MaxCmds : \A b \in (1..MaxCmds) \ {a} :
          (state[a] = "Paused" /\ loop[a].permit /\ state[b] = "Pending" /\ loop[b].queued)
            ~> \/ state[a] # "Paused"
               \/ state[b] # "Pending"
               \/ \E c \in Tasks \ {a} : state[c] = "Downloading" /\ loop[c].permit

\* A task that had begun to download is paused and holds no permit, and
\* another task is downloading with the permit.
RunsWhileOtherPaused ==
    \E a, b \in Tasks :
        /\ state[a] = "Paused" /\ ~loop[a].permit /\ loop[a].pc = "sel"
        /\ pipeline[a] = "join"
        /\ state[b] = "Downloading" /\ loop[b].permit

\* C28: once a comic has been paused (its loop has given up the comic permit)
\* and until it is Downloading again, so while it is Paused or Pending after
\* a resume, an image task of it that has taken note of the change holds no
\* image permit: while it waits in select! for the next change of the state
\* (none is pending), it keeps no permit away from other comics.
IdleImgHoldsNoPermit ==
    \A t \in Tasks, i \in Imgs :
        (/\ state[t] \in {"Paused", "Pending"}
         /\ loop[t].pc # "exited" /\ ~loop[t].permit
         /\ img[t][i].pc = "sel" /\ ~img[t][i].changed) => ~img[t][i].permit

\* C29: a task that was paused and then resumed goes back to Downloading on a
\* permit that it has newly acquired: when acquire_comic_permit of the
\* resumed task (the last command resumed a Paused task; its pipeline had
\* spawned its image tasks, so it was Downloading when it was paused) goes on
\* to send Downloading, the loop held no permit before.
ResumedAcquiresAnew ==
    [][\A t \in Tasks :
         (/\ cmds_left = 0
          /\ pipeline[t] = "join"
          /\ loop[t].pc = "sel" /\ loop'[t].pc = "send") => ~loop[t].permit]_vars

\* C30: Downloading is only ever written over Pending: a state that pause or
\* cancel has set while the task waited for its permit, or had just obtained
\* it, is not replaced by Downloading.
DownloadingOnlyOverPending ==
    [][\A t \in Tasks :
         (state'[t] = "Downloading" /\ state[t] # "Downloading")
            => state[t] = "Pending"]_vars

\* C31: the failure of one image task neither cancels nor skips its siblings:
\* the step in which an image task fails changes no state, no counter and no
\* other image task, and the pipeline decides (Completed or Failed) only when
\* every image task of the plan has finished.
SiblingsOutliveFailure ==
    [][\A t \in Tasks :
        /\ \A i \in Imgs :
             (img[t][i].dpc # "failed" /\ img'[t][i].dpc = "failed")
                => /\ state' = state
                   /\ downloaded_img_count' = downloaded_img_count
                   /\ total_img_count' = total_img_count
                   /\ pipeline' = pipeline
                   /\ \A j \in Imgs \ {i} : img'[t][j] = img[t][j]
        /\ (pipeline[t] = "join" /\ pipeline'[t] = "done")
                => \A i \in 1..PlanSize(comic[t]) : img[t][i].pc = "exited"]_vars

\* C31's case: the first image of the long comic failed, the second was
\* downloaded and counted all the same, and the pipeline then decided Failed.
SiblingDoneAfterFailure ==
    \E t \in Tasks :
        /\ comic[t] = LongComic
        /\ img[t][1].dpc = "failed" /\ img[t][LongImgs].dpc = "done"
        /\ downloaded_img_count[t] = 1
        /\ pipeline[t] = "done" /\ state[t] = "Failed"

\* C32: an image task whose download_img leaves its start skips exactly when
\* the configured format is concrete and the file of its number and of that
\* format's extension is in the temp directory: it then counts the image
\* once, starts no fetch, writes no file and adds nothing to byte_per_sec.
\* Otherwise it starts the fetch and counts nothing; a fetch ends counted
\* only in a step that has written the image's file, and downloaded_img_count
\* changes in no other step than a skip or such a write.
SkipsOnlyExistingConcreteFile ==
    [][\A t \in Tasks :
        /\ \A i \in Plan(t) :
            LET found == /\ download_format # "Original"
                         /\ \E extension \in {"jpg", "png", "webp"} :
                              /\ Some(extension) = Extension(download_format)
                              /\ <<i, extension>> \in temp_dir[comic[t]].files
            IN /\ (/\ img[t][i].dpc = "start"
                   /\ img'[t][i].dpc \notin {"start", "dropped"})
                     => IF found
                          THEN /\ img'[t][i].dpc = "done"
                               /\ downloaded_img_count'[t] = downloaded_img_count[t] + 1
                               /\ UNCHANGED <<dirVars, byte_per_sec, bytes_added>>
                          ELSE /\ img'[t][i].dpc = "fetch"
                               /\ UNCHANGED <<downloaded_img_count, dirVars,
                                              byte_per_sec, bytes_added>>
               /\ (img[t][i].dpc = "fetch" /\ img'[t][i].dpc = "done")
                     => /\ i \in Numbers(temp_dir'[comic[t]])
                        /\ downloaded_img_count'[t] = downloaded_img_count[t] + 1
                        /\ bytes_added' = bytes_added + ImgBytes
        /\ downloaded_img_count'[t] # downloaded_img_count[t]
             => \E i \in Plan(t) : /\ img[t][i].dpc \in {"start", "fetch"}
                                   /\ img'[t][i].dpc = "done"]_vars

\* C32's case: under Png, the second task of the comic has skipped the first
\* image, whose file the first task left, and has fetched and written the
\* second; only the writes added bytes.
SkippedOneFetchedOther ==
    \E t1, t2 \in Tasks :
        /\ t1 < t2 /\ comic[t1] = LongComic /\ comic[t2] = LongComic
        /\ download_format = "Png"
        /\ img[t1][1].dpc = "done" /\ img[t1][LongImgs].dpc = "failed"
        /\ img[t2][1].dpc = "done" /\ img[t2][LongImgs].dpc = "done"
        /\ downloaded_img_count[t2] = LongImgs
        /\ bytes_added = 2 * ImgBytes
        /\ temp_dir[LongComic].files = {ImgFile(1, "png"), ImgFile(LongImgs, "png")}

\* The step is the one in which the pipeline of task t has created and cleaned
\* the temp directory and goes on to spawn its image tasks.
Cleans(t) == pipeline[t] = "start" /\ pipeline'[t] = "join"

\* The image file is of the extension of the configured format.
OfConfiguredFormat(file) ==
    \/ download_format = "Jpeg" /\ file[2] = "jpg"
    \/ download_format = "Png" /\ file[2] = "png"
    \/ download_format = "Webp" /\ file[2] = "webp"

\* C33 as stated: the clean step removes the image files whose extension
\* differs from the one of the configured format (those that remove_file can
\* remove) and keeps the others; under Original it removes nothing.
CleanSparesAllUnderOriginal ==
    [][\A t \in Tasks :
        Cleans(t) =>
            \A file \in temp_dir[comic[t]].files :
                IF download_format = "Original" \/ OfConfiguredFormat(file)
                  THEN file \in temp_dir'[comic[t]].files
                  ELSE file \in undeletable \/ file \notin temp_dir'[comic[t]].files]_vars

\* C33, amended: the clean step keeps the image files of the configured
\* format's extension and removes every other file that remove_file can
\* remove; under Original, which has no extension, no file is kept, so the
\* files left by an earlier attempt are removed.
CleanKeepsOnlyConfiguredExtension ==
    [][\A t \in Tasks :
        Cleans(t) =>
            /\ temp_dir'[comic[t]].files \subseteq temp_dir[comic[t]].files
            /\ \A file \in temp_dir[comic[t]].files :
                IF OfConfiguredFormat(file)
                  THEN file \in temp_dir'[comic[t]].files
                  ELSE file \in temp_dir'[comic[t]].files <=> file \in undeletable]_vars

\* C33's case: under Original, the first task of the comic wrote the first
\* image and failed; the pipeline of the second task has cleaned the temp
\* directory, which holds no image file any more, and has written none yet.
EarlierFilesCleanedUnderOriginal ==
    \E t1, t2 \in Tasks :
        /\ t1 < t2 /\ comic[t1] = LongComic /\ comic[t2] = LongComic
        /\ download_format = "Original"
        /\ undeletable = {}
        /\ img[t1][1].dpc = "done" /\ state[t1] = "Failed"
        /\ pipeline[t2] = "join"
        /\ \A i \in Plan(t2) : img[t2][i].dpc = "start"
        /\ temp_dir[LongComic].exists
        /\ temp_dir[LongComic].files = {}

\* The sentinel is nowhere in the list but, possibly, at its end.
SentinelOnlyLast(list) ==
    \A k \in 1..Len(list) : list[k] = Sentinel => k = Len(list)

\* The list without its trailing sentinel.
WithoutTrailingSentinel(list) ==
    IF list # <<>> /\ list[Len(list)] = Sentinel
      THEN SubSeq(list, 1, Len(list) - 1)
      ELSE list

\* C34: for an image list that holds the sentinel only as its last entry,
\* the plan is the list without it: the stored total is the number of the
\* other entries, the image tasks are spawned in list order, the k-th of them
\* with index k - 1 and the url of the k-th entry, and it names its file by
\* the number k.
PlanIsListWithoutSentinel ==
    (plan_pc \in {"stored", "spawned"} /\ SentinelOnlyLast(img_list))
        => LET entries == WithoutTrailingSentinel(img_list)
           IN /\ plan.total_img_count = Len(entries)
              /\ Len(plan.join_set) <= Len(entries)
              /\ plan_pc = "spawned" => Len(plan.join_set) = Len(entries)
              /\ \A k \in DOMAIN plan.join_set :
                    /\ plan.join_set[k].index = k - 1
                    /\ plan.join_set[k].url = <<"https:">> \o entries[k]
                    /\ plan.join_set[k].file \in {0, k}

\* C34's case: a list of two images and the sentinel has given a total of 2
\* and two image tasks, which name their files 0001 and 0002.
TwoImgsAndSentinelPlanned ==
    /\ img_list = <<<<"data", "01.jpg">>, <<"data", "02.jpg">>, Sentinel>>
    /\ plan_pc = "spawned"
    /\ plan.total_img_count = 2
    /\ Len(plan.join_set) = 2
    /\ plan.join_set[1].file = 1 /\ plan.join_set[2].file = 2

\* C35: whenever the registry entry of a comic is Pending, Downloading or
\* Paused, the loop of that task's process is still running: no loop exits
\* leaving its task in a non-terminal state.
ActiveEntryHasRunningLoop ==
    \A c \in Comics :
        (download_tasks[c] # 0 /\ IsActive(state[download_tasks[c]]))
            => loop[download_tasks[c]].pc # "exited"

\* The task was the registry entry of its comic and another task has taken
\* its place.
Replaced(t) == comic[t] # 0 /\ download_tasks[comic[t]] # t

\* C36: once the task that replaces it has been created, a cancelled task
\* writes no image file, counts no image and renames nothing any more.
ReplacedTaskIsQuiet ==
    [][\A t \in Tasks :
        (Replaced(t) /\ state[t] = "Cancelled")
            => /\ downloaded_img_count'[t] = downloaded_img_count[t]
               /\ \A i \in Imgs : ~(img[t][i].dpc = "fetch" /\ img'[t][i].dpc = "done")
               /\ ~Publishes(t)]_vars

\* C37: an existing final directory is changed or removed only in a step in
\* which a task of its comic becomes Completed: a run that ends in Failed or
\* Cancelled leaves it as it was.
FinalDirChangesOnlyOnCompleted ==
    [][\A c \in Comics :
        (final_dir[c].exists /\ final_dir'[c] # final_dir[c])
            => \E t \in TasksOf(c) :
                  state[t] # "Completed" /\ state'[t] = "Completed"]_vars

\* C38: the pipeline of a task runs once.  It never goes back to an earlier
\* position, up to its end or to its drop with the loop; total_img_count is written in the step that leaves its start and
\* in no other; image tasks are spawned in that step only; an image task that
\* has counted its image stays done, and downloaded_img_count changes only by
\* one, in a step in which one image task that had not counted becomes done;
\* it is never reset.
PipelineRunsOnce ==
    [][\A t \in Tasks :
        /\ pipeline[t] = "join" => pipeline'[t] \in {"join", "done", "dropped"}
        /\ pipeline[t] = "done" => pipeline'[t] \in {"done", "dropped"}
        /\ pipeline[t] = "dropped" => pipeline'[t] = "dropped"
        /\ total_img_count'[t] # total_img_count[t] => pipeline[t] = "start"
        /\ \A i \in Imgs :
            /\ (img[t][i].pc = "none" /\ img'[t][i].pc # "none")
                  => pipeline[t] = "start" /\ pipeline'[t] = "join"
            /\ img[t][i].dpc = "done" => img'[t][i].dpc = "done"
        /\ downloaded_img_count'[t] # downloaded_img_count[t]
              => /\ downloaded_img_count'[t] = downloaded_img_count[t] + 1
                 /\ \E i \in Plan(t) :
                      /\ img[t][i].dpc # "done" /\ img'[t][i].dpc = "done"
                      /\ \A j \in Imgs \ {i} : img'[t][j] = img[t][j]]_vars

\* C38's case: a task was paused in the middle of its pipeline, its loop gave
\* up the permit, and it was resumed: it is Pending with the same pipeline
\* waiting for its image tasks, the first image counted and the total kept.
ResumedInMidPipeline ==
    \E t \in Tasks :
        /\ comic[t] = LongComic
        /\ state[t] = "Pending"
        /\ ~loop[t].permit /\ loop[t].pc # "exited"
        /\ pipeline[t] = "join"
        /\ img[t][1].dpc = "done" /\ img[t][LongImgs].dpc = "start"
        /\ downloaded_img_count[t] = 1
        /\ total_img_count[t] = LongImgs

RegistryNeverShrinks ==
    [][\A c \in Comics :
        /\ download_tasks[c] # 0 => download_tasks'[c] # 0
        /\ (last_cmd'.op = "submit" /\ last_cmd'.comic = c) => download_tasks'[c] # 0
        /\ (/\ last_cmd'.op \in {"pause", "resume", "cancel"}
            /\ last_cmd'.comic = c
            /\ download_tasks[c] # 0)
              => last_cmd'.res # "err"]_vars

\* C40's case: the task of a comic has completed and its loop has exited; a
\* cancel for the comic has just returned Ok.
CancelFindsEndedTask ==
    \E c \in Comics :
        /\ last_cmd = Cmd("cancel", c, "ok")
        /\ download_tasks[c] # 0
        /\ state[download_tasks[c]] = "Completed"
        /\ loop[download_tasks[c]].pc = "exited"

====
